---------------------------- MODULE Spec2Model ----------------------------
(***************************************************************************)
(* Acoustic direction / motion / band-energy core of skhy-ai/acoustic-ai.  *)
(*                                                                         *)
(* The components are pure functions.  The state machine is the call       *)
(* interface: `op` names the function whose call has just returned         *)
(* ("idle" between calls), `args` holds the arguments it was given and     *)
(* `res` the value it returned.  `mem` holds the caller's objects that the *)
(* call was handed by reference (sample buffers, microphone positions,     *)
(* band table, Doppler context) as they are after the call, and `log` the  *)
(* records the call handed to the logging module.  `default_bands` is the  *)
(* list object bound to the module global DEFAULT_BANDS of                 *)
(* frequency_filter.py, as it is now.                                      *)
(*                                                                         *)
(* The 16-microphone source of acquisitions/hal/sixteen_mems.py is an      *)
(* object with two threads: `source` holds its fields, `receiver` the      *)
(* position of the thread running _recv_loop and `reader` the position of  *)
(* the thread that calls connect, read_chunk, get_info and stop.  A step   *)
(* of the model is one atomic step of one thread (a deque operation, a     *)
(* datagram received and decoded).                                         *)
(*                                                                         *)
(* Numbers.  Python floats are modelled as exact rationals [n, d] in       *)
(* lowest terms (rounding error of the float arithmetic is not modelled).  *)
(* Optional values are <<>> (None) or <<v>>.                               *)
(*                                                                         *)
(* FFT.  numpy's rfft is outside the repository.  doppler.py only reads    *)
(* the magnitude spectrum of a Hann-windowed frame, so a frame is given    *)
(* by that spectrum: a function from rfft bin to magnitude, zero on every  *)
(* bin outside its domain.  frequency_filter.py and doa.py are modelled    *)
(* on the samples themselves, with the DFT computed exactly; that is       *)
(* possible in integers for FFT sizes 1, 2 and 4 only.                     *)
(***************************************************************************)
EXTENDS Integers, Sequences, FiniteSets, TLC

VARIABLES op, args, res, mem, log, default_bands, source, receiver, reader

vars == <<op, args, res, mem, log, default_bands, source, receiver, reader>>

\* The call interface of the functional components
calls == <<op, args, res, mem, log>>

\* The 16-microphone UDP source and its two threads
hardware == <<source, receiver, reader>>

\* The objects that live on between the calls of the functional components.
persistent == <<default_bands, source, receiver, reader>>

---------------------------------------------------------------------------
(* Arithmetic helpers *)

None == <<>>

Some(v) == <<v>>

Abs(x) == IF x < 0 THEN -x ELSE x

Max2(a, b) == IF a >= b THEN a ELSE b

Min2(a, b) == IF a <= b THEN a ELSE b

Range(s) == {s[i] : i \in DOMAIN s}

\* Local assignment: Let([x \in Val(v) |-> e]) is e with x the value of v.
\* v is evaluated once, before e; the equality makes a sequence built by a
\* function constructor a sequence of values.
Val(v) == {y \in {v} : y = y}

Let(f) == CHOOSE r \in {g[CHOOSE x \in DOMAIN g : TRUE] : g \in {f}} : TRUE

GCD[a \in Nat, b \in Nat] == IF b = 0 THEN a ELSE GCD[b, a % b]

\* The rational n/d (d # 0) in lowest terms with a positive denominator.
RatOf[n \in Int, d \in Int] ==
    LET s == IF d < 0 THEN -1 ELSE 1
        g == GCD[Abs(n), Abs(d)]
    IN  [n |-> (s * n) \div g, d |-> (s * d) \div g]

Rat(n, d) == RatOf[n, d]

RInt(k) == [n |-> k, d |-> 1]

\* The operations divide by common factors first, to keep the products small.
RAdd(a, b) ==
    LET g == GCD[a.d, b.d]
    IN  Rat(a.n * (b.d \div g) + b.n * (a.d \div g), (a.d \div g) * b.d)

RNeg(a) == [n |-> -a.n, d |-> a.d]

RSub(a, b) == RAdd(a, RNeg(b))

RMul(a, b) ==
    LET g1 == GCD[Abs(a.n), b.d]
        g2 == GCD[Abs(b.n), a.d]
    IN  Rat((a.n \div g1) * (b.n \div g2), (a.d \div g2) * (b.d \div g1))

\* a / b, b # 0
RDiv(a, b) ==
    RMul(a, IF b.n < 0 THEN [n |-> -b.d, d |-> -b.n] ELSE [n |-> b.d, d |-> b.n])

RAbs(a) == [n |-> Abs(a.n), d |-> a.d]

RLt(a, b) ==
    LET g == GCD[a.d, b.d]
    IN  a.n * (b.d \div g) < b.n * (a.d \div g)

RLe(a, b) ==
    LET g == GCD[a.d, b.d]
    IN  a.n * (b.d \div g) <= b.n * (a.d \div g)

\* Python int() of a float: truncation toward zero.
RTrunc(a) == IF a.n >= 0 THEN a.n \div a.d ELSE -((-a.n) \div a.d)

\* Sum of a sequence of rationals.
RECURSIVE RSum(_)
RSum(s) == IF s = <<>> THEN RInt(0) ELSE RAdd(Head(s), RSum(Tail(s)))

\* Largest element of a non-empty sequence of rationals.
RECURSIVE RMax(_)
RMax(s) ==
    IF Len(s) = 1 THEN s[1]
    ELSE LET m == RMax(Tail(s)) IN IF RLt(s[1], m) THEN m ELSE s[1]

SetMax(S) == CHOOSE x \in S : \A y \in S : y <= x

SetMin(S) == CHOOSE x \in S : \A y \in S : x <= y

---------------------------------------------------------------------------
(* doppler.py *)

\* Magnitude of rfft bin k of a frame spectrum (zero outside its support).
Mag(spec, k) == IF k \in DOMAIN spec THEN spec[k] ELSE 0

\* First rfft bin whose frequency k*sr/n_fft is >= low_hz.
MaskLo(sr, n_fft, low_hz) == (low_hz * n_fft + sr - 1) \div sr

\* Last rfft bin (of n_fft \div 2 + 1) whose frequency is <= high_hz.
MaskHi(sr, n_fft, high_hz) == Min2(n_fft \div 2, (high_hz * n_fft) \div sr)

\* np.argmax over the masked bins: the first bin holding the maximum.
ArgMaxBin(spec, lo, hi) ==
    LET S  == {k \in DOMAIN spec : lo <= k /\ k <= hi /\ spec[k] > 0}
    IN  IF S = {} THEN lo
        ELSE LET mx == SetMax({spec[k] : k \in S})
             IN  SetMin({k \in S : spec[k] = mx})

\* Parabolic interpolation offset p of a peak beta between alpha and gamma.
ParabolicOffsetMutWhole(alpha, beta, gamma) ==
    IF alpha - 2 * beta + gamma # 0
    THEN Rat(alpha - gamma, alpha - 2 * beta + gamma)
    ELSE RInt(0)

ParabolicOffset(alpha, beta, gamma) ==
    IF alpha - 2 * beta + gamma # 0
    THEN Rat(alpha - gamma, 2 * (alpha - 2 * beta + gamma))
    ELSE RInt(0)

DominantFrequency(spec, sr, n_fft, low_hz, high_hz) ==
    LET lo == MaskLo(sr, n_fft, low_hz)
        hi == MaskHi(sr, n_fft, high_hz)
    IN  IF lo > hi THEN RInt(0)
        ELSE LET peak == ArgMaxBin(spec, lo, hi)
                 freq_resolution == Rat(sr, n_fft)
             IN  IF lo < peak /\ peak < hi
                 THEN LET p == ParabolicOffset(Mag(spec, peak - 1),
                                               Mag(spec, peak),
                                               Mag(spec, peak + 1))
                      IN  RAdd(Rat(peak * sr, n_fft), RMul(p, freq_resolution))
                 ELSE Rat(peak * sr, n_fft)

\* Defaults of dominant_frequency / frequency_track
DefaultNFft == 4096

DefaultLowHz == 20

DefaultHighHz == 20000

\* Direction classification with the tolerance band
ToleranceHz == 2

DirectionMutLe(delta_f) ==
    IF RLe(RAbs(delta_f), RInt(ToleranceHz)) THEN "stationary"
    ELSE IF delta_f.n > 0 THEN "approaching"
    ELSE "receding"

Direction(delta_f) ==
    IF RLt(RAbs(delta_f), RInt(ToleranceHz)) THEN "stationary"
    ELSE IF delta_f.n > 0 THEN "approaching"
    ELSE "receding"

\* v = speed_of_sound * delta_f / f_observed, 0 when f_observed <= 0
DopplerVelocity(speed_of_sound, delta_f, f_obs) ==
    IF f_obs.n > 0 THEN RDiv(RMul(speed_of_sound, delta_f), f_obs)
    ELSE RInt(0)

\* Lines 196-198: the record handed to logger.info when source_frequency
\* is None, with the frequency it reports
VelocityLog(chunk1, sample_rate, source_frequency) ==
    IF source_frequency = None
    THEN LET f1 == DominantFrequency(chunk1, sample_rate, DefaultNFft,
                                     DefaultLowHz, DefaultHighHz)
         IN  <<[level |-> "INFO",
                msg |-> "source_frequency not provided, using f1=%.1f Hz",
                source_frequency |-> IF f1.n > 0 THEN f1 ELSE RInt(1)]>>
    ELSE <<>>

\* Lines 192-229
CalculateVelocityMutReference(chunk1, chunk2, sample_rate, source_frequency, speed_of_sound) ==
    LET f1 == DominantFrequency(chunk1, sample_rate, DefaultNFft,
                                DefaultLowHz, DefaultHighHz)
        f2 == DominantFrequency(chunk2, sample_rate, DefaultNFft,
                                DefaultLowHz, DefaultHighHz)
        sf == IF source_frequency = None
              THEN (IF f1.n > 0 THEN f1 ELSE RInt(1))
              ELSE source_frequency[1]
        delta_f == RSub(f2, sf)
    IN  [f1_hz |-> f1,
         f2_hz |-> f2,
         delta_f_hz |-> delta_f,
         velocity_m_s |-> DopplerVelocity(speed_of_sound, delta_f, f2),
         direction |-> Direction(delta_f),
         source_frequency_hz |-> sf,
         speed_of_sound_m_s |-> speed_of_sound]

CalculateVelocity(chunk1, chunk2, sample_rate, source_frequency, speed_of_sound) ==
    LET f1 == DominantFrequency(chunk1, sample_rate, DefaultNFft,
                                DefaultLowHz, DefaultHighHz)
        f2 == DominantFrequency(chunk2, sample_rate, DefaultNFft,
                                DefaultLowHz, DefaultHighHz)
        sf == IF source_frequency = None
              THEN (IF f1.n > 0 THEN f1 ELSE RInt(1))
              ELSE source_frequency[1]
        delta_f == RSub(f2, f1)
    IN  [f1_hz |-> f1,
         f2_hz |-> f2,
         delta_f_hz |-> delta_f,
         velocity_m_s |-> DopplerVelocity(speed_of_sound, delta_f, f2),
         direction |-> Direction(delta_f),
         source_frequency_hz |-> sf,
         speed_of_sound_m_s |-> speed_of_sound]


\* n_frames = max(1, (len(audio) - frame_samples) // hop_samples + 1)
NFramesMutNoFloor(n, frame_samples, hop_samples) ==
    Max2(1, (Max2(n - frame_samples, 0) + hop_samples - 1) \div hop_samples + 1)

NFramesMutExtra(n, frame_samples, hop_samples) ==
    Max2(1, ((n - frame_samples) \div hop_samples) + 2)

NFrames(n, frame_samples, hop_samples) ==
    Max2(1, ((n - frame_samples) \div hop_samples) + 1)

\* The loop of frequency_track from frame i on: one (time, frequency) per frame.
RECURSIVE TrackLoop(_, _, _, _, _, _, _, _)
TrackLoop(i, n_frames, spectra, sr, frame_samples, hop_samples, low_hz, high_hz) ==
    IF i >= n_frames THEN <<>>
    ELSE LET start == i * hop_samples
             end   == start + frame_samples
         IN  <<[time |-> Rat(start + end, 2 * sr),
                freq |-> DominantFrequency(spectra[i + 1], sr, frame_samples,
                                           low_hz, high_hz)]>>
             \o TrackLoop(i + 1, n_frames, spectra, sr, frame_samples,
                          hop_samples, low_hz, high_hz)

\* audio = [n |-> number of samples, spectra |-> spectrum of each frame]
FrequencyTrack(audio, sr, frame_length_s, hop_length_s, low_hz, high_hz) ==
    LET frame_samples == RTrunc(RMul(frame_length_s, RInt(sr)))
        hop_samples   == RTrunc(RMul(hop_length_s, RInt(sr)))
        n_frames      == NFrames(audio.n, frame_samples, hop_samples)
    IN  Let([tr \in Val(TrackLoop(0, n_frames, audio.spectra, sr, frame_samples,
                       hop_samples, low_hz, high_hz)) |-> [times |-> [i \in 1..Len(tr) |-> tr[i].time],
                          freqs |-> [i \in 1..Len(tr) |-> tr[i].freq]]])

\* Reference frequency of full_doppler_analysis
ReferenceFrequencyMutLast(source_frequency, freqs) ==
    IF source_frequency = None /\ Len(freqs) > 0 /\ freqs[Len(freqs)].n > 0
    THEN freqs[Len(freqs)]
    ELSE IF source_frequency = None THEN RInt(1000)
    ELSE source_frequency[1]

ReferenceFrequency(source_frequency, freqs) ==
    IF source_frequency = None /\ Len(freqs) > 0 /\ freqs[1].n > 0
    THEN freqs[1]
    ELSE IF source_frequency = None THEN RInt(1000)
    ELSE source_frequency[1]

FrameDirection(delta_f) ==
    IF RLt(RAbs(delta_f), RInt(2)) THEN "stationary"
    ELSE IF delta_f.n > 0 THEN "approaching"
    ELSE "receding"

FrameVelocity(speed_of_sound, delta_f, f) ==
    IF f.n > 0 THEN RDiv(RMul(speed_of_sound, delta_f), f) ELSE RInt(0)

\* travel_time = distance / |v| when a distance is given and |v| > 0.1
TravelTimeMutGe(distance_m, v) ==
    IF distance_m # None /\ RLe(Rat(1, 10), RAbs(v))
    THEN Some(RDiv(distance_m[1], RAbs(v)))
    ELSE None

TravelTime(distance_m, v) ==
    IF distance_m # None /\ RLt(Rat(1, 10), RAbs(v))
    THEN Some(RDiv(distance_m[1], RAbs(v)))
    ELSE None

Count(s, x) == Cardinality({i \in 1..Len(s) : s[i] = x})

\* max(set(directions), key=directions.count): the first label of the set,
\* in its iteration order, with the largest count.  The iteration order of
\* a set of strings is not fixed, so any label with the largest count may
\* be returned.
DominantDirectionsMutAny(directions) ==
    {directions[i] : i \in 1..Len(directions)}

DominantDirections(directions) ==
    {l \in {directions[i] : i \in 1..Len(directions)} :
        \A j \in 1..Len(directions) :
            Count(directions, directions[j]) <= Count(directions, l)}

\* Lines 281-328 for a track tr and a reference frequency sf; `dominant` is
\* the label max() returned, one of DominantDirections.
AnalyseFrames(tr, sf, n, sr, speed_of_sound, distance_m, dominant) ==
    Let([velocities \in Val([i \in 1..Len(tr.freqs) |->
             FrameVelocity(speed_of_sound, RSub(tr.freqs[i], sf), tr.freqs[i])]) |->
    Let([travel_times \in Val([i \in 1..Len(tr.freqs) |-> TravelTime(distance_m, velocities[i])]) |->
    Let([valid_tt \in Val(SelectSeq(travel_times, LAMBDA t : t # None)) |->
      [times |-> tr.times,
       frequencies |-> tr.freqs,
       velocities |-> velocities,
       directions |-> [i \in 1..Len(tr.freqs) |->
                          FrameDirection(RSub(tr.freqs[i], sf))],
       travel_times |-> travel_times,
       summary |->
          [mean_velocity_m_s |-> RDiv(RSum(velocities), RInt(Len(velocities))),
           max_velocity_m_s  |-> RMax([i \in 1..Len(velocities) |->
                                          RAbs(velocities[i])]),
           dominant_direction |-> dominant,
           n_frames |-> Len(tr.times),
           duration_s |-> Rat(n, sr)]
          @@ (IF distance_m # None /\ valid_tt # <<>>
              THEN [mean_travel_time_s |->
                       RDiv(RSum([i \in 1..Len(valid_tt) |-> valid_tt[i][1]]),
                            RInt(Len(valid_tt)))]
              ELSE <<>>),
       \* the local variable source_frequency after line 279 (not returned)
       local_source_frequency |-> sf]])])])

FullDopplerAnalysis(audio, sr, source_frequency, speed_of_sound, frame_length_s, hop_length_s, distance_m, dominant) ==
    Let([tr \in Val(FrequencyTrack(audio, sr, frame_length_s, hop_length_s,
                        DefaultLowHz, DefaultHighHz)) |->
    Let([sf \in Val(ReferenceFrequency(source_frequency, tr.freqs)) |->
      AnalyseFrames(tr, sf, audio.n, sr, speed_of_sound, distance_m, dominant)])])

\* The labels full_doppler_analysis can report for these arguments.
DirectionsOf(audio, sr, source_frequency, speed_of_sound, frame_length_s, hop_length_s, distance_m) ==
    FullDopplerAnalysis(audio, sr, source_frequency, speed_of_sound,
                        frame_length_s, hop_length_s, distance_m,
                        "stationary").directions

---------------------------------------------------------------------------
(* Exact DFT of sizes 1, 2 and 4 (numpy.fft.rfft / np.hanning) *)

RECURSIVE SeqSum(_)
SeqSum(s) == IF s = <<>> THEN 0 ELSE Head(s) + SeqSum(Tail(s))

\* Real and imaginary part of exp(-2 pi i q / 4) = (-i)^q
TwiddleRe(q) == CASE q % 4 = 0 -> 1 [] q % 4 = 2 -> -1 [] OTHER -> 0

TwiddleIm(q) == CASE q % 4 = 1 -> -1 [] q % 4 = 3 -> 1 [] OTHER -> 0

\* The first n samples of x, zero-padded to n: np.pad / x[:n] / rfft(x, n=n)
PadTo(x, n) == [j \in 1..n |-> IF j <= Len(x) THEN x[j] ELSE 0]

\* The caller's buffer after `audio = np.pad(audio, (0, n_fft - len(audio)))`
\* and `windowed = audio[:n_fft] * window`: np.pad and the product allocate
\* new arrays and the assignment rebinds the local name, so the buffer is
\* neither resized nor scaled.
CallerBufferMutInPlace(audio, n_fft) ==
    IF Len(audio) < n_fft THEN PadTo(audio, n_fft) ELSE audio

CallerBuffer(audio, n_fft) == audio

\* np.fft.rfft of n real samples, n in {1, 2, 4}: bins 0..n/2
Rfft(x, n) ==
    [k \in 0..(n \div 2) |->
        [re |-> SeqSum([j \in 1..n |-> x[j] * TwiddleRe((4 \div n) * k * (j - 1))]),
         im |-> SeqSum([j \in 1..n |-> x[j] * TwiddleIm((4 \div n) * k * (j - 1))])]]

\* 4 * np.hanning(n) for n <= 4: 0.5 - 0.5 cos(2 pi j / (n - 1))
HanningTimes4(n) ==
    CASE n = 1 -> <<4>>
      [] n = 2 -> <<0, 0>>
      [] n = 3 -> <<0, 4, 0>>
      [] n = 4 -> <<0, 3, 3, 0>>

---------------------------------------------------------------------------
(* frequency_filter.py *)

FrequencyBand(name, low_hz, high_hz, candidate_sources) ==
    [name |-> name, low_hz |-> low_hz, high_hz |-> high_hz,
     candidate_sources |-> candidate_sources]

DEFAULT_BANDS ==
    << FrequencyBand("sub_bass", 10, 80, <<"helicopter", "marine_vessel", "earthquake">>),
       FrequencyBand("bass", 80, 300, <<"drone", "car_truck", "helicopter", "marine_vessel">>),
       FrequencyBand("low_mid", 300, 1000, <<"drone", "car_truck", "fixed_wing", "human_voice">>),
       FrequencyBand("mid", 1000, 3500, <<"siren", "human_voice", "fixed_wing", "bird">>),
       FrequencyBand("upper_mid", 3500, 8000, <<"gunshot", "siren", "bird", "insect">>),
       FrequencyBand("high", 8000, 16000, <<"bird", "insect", "marine_mammal">>) >>

\* spectrum = |rfft(audio[:n_fft] * hanning(n_fft))| ** 2, times 16
PowerSpectrum(audio, n_fft) ==
    Let([X \in Val(Rfft([j \in 1..n_fft |-> PadTo(audio, n_fft)[j] * HanningTimes4(n_fft)[j]],
              n_fft)) |-> [k \in DOMAIN X |-> X[k].re * X[k].re + X[k].im * X[k].im]])

\* mask = (freqs >= band.low_hz) & (freqs < band.high_hz), freqs[k] = k*sr/n_fft
InBandMutClosed(k, sr, n_fft, band) ==
    k * sr >= band.low_hz * n_fft /\ k * sr <= band.high_hz * n_fft

InBand(k, sr, n_fft, band) ==
    k * sr >= band.low_hz * n_fft /\ k * sr < band.high_hz * n_fft

RawBandEnergy(spectrum, sr, n_fft, band) ==
    SeqSum([j \in 1..(n_fft \div 2 + 1) |->
               IF InBand(j - 1, sr, n_fft, band) THEN spectrum[j - 1] ELSE 0])

\* r["energy"] = r["energy_raw"] / total_energy if total_energy > 0 else 0.0
NormalisedEnergyMutNoGuard(energy_raw, total_energy) ==
    IF total_energy > 0 THEN Rat(energy_raw, total_energy) ELSE RInt(1)

NormalisedEnergy(energy_raw, total_energy) ==
    IF total_energy > 0 THEN Rat(energy_raw, total_energy) ELSE RInt(0)

\* Lines 133-154.  energy_db is 10 * log10(energy_raw + 1e-10); the model
\* carries its argument energy_raw (times 16), of which it is an increasing
\* function.
BandResults(spectrum, sr, bands, n_fft) ==
    Let([raw \in Val([b \in 1..Len(bands) |-> RawBandEnergy(spectrum, sr, n_fft, bands[b])]) |->
    Let([total_energy \in Val(SeqSum(raw)) |->
      [b \in 1..Len(bands) |->
          [name |-> bands[b].name,
           low_hz |-> bands[b].low_hz,
           high_hz |-> bands[b].high_hz,
           candidate_sources |-> bands[b].candidate_sources,
           energy |-> NormalisedEnergy(raw[b], total_energy),
           energy_db |-> raw[b]]]])])

\* bands is None (the default table, as the module global holds it at the
\* time of the call) or <<table>>
FrequencyBandEnergy(audio, sr, bands, n_fft) ==
    BandResults(PowerSpectrum(audio, n_fft), sr,
                IF bands = None THEN default_bands ELSE bands[1], n_fft)

\* sorted(items, key=..., reverse=True) / list.sort(..., reverse=True): a
\* stable sort, so items with equal keys keep their order.  keys[i] is the
\* (rational) key of items[i].
StableSortDescendingMutUnsorted(items, keys) == items

StableSortDescending(items, keys) ==
    LET n == Len(items)
        Rank(i) == 1 + Cardinality({j \in 1..n :
                          RLt(keys[i], keys[j]) \/ (keys[j] = keys[i] /\ j < i)})
    IN  [p \in 1..n |-> items[CHOOSE i \in 1..n : Rank(i) = p]]

\* Keys of source_scores in insertion order: the candidate labels of the
\* bands, each at its first occurrence.
RECURSIVE FirstOccurrences(_)
FirstOccurrences(labels) ==
    IF labels = <<>> THEN <<>>
    ELSE LET rest == FirstOccurrences(SelectSeq(Tail(labels),
                                                LAMBDA l : l # Head(labels)))
         IN  <<Head(labels)>> \o rest

RECURSIVE Flatten(_)
Flatten(ss) == IF ss = <<>> THEN <<>> ELSE Head(ss) \o Flatten(Tail(ss))

\* source_scores[src] after the accumulation loop (lines 204-210)
AccumulatedScoreMutLargest(band_energies, src) ==
    RMax([b \in 1..Len(band_energies) |->
             RMul(RInt(Count(band_energies[b].candidate_sources, src)),
                  band_energies[b].energy)])

AccumulatedScore(band_energies, src) ==
    RSum([b \in 1..Len(band_energies) |->
             RMul(RInt(Count(band_energies[b].candidate_sources, src)),
                  band_energies[b].energy)])

\* Python round(x, 3) of x >= 0, in thousandths: round half to even.
RoundMilli(x) ==
    LET num == x.n * 1000
        q   == num \div x.d
        r   == num % x.d
    IN  IF 2 * r > x.d THEN q + 1
        ELSE IF 2 * r < x.d THEN q
        ELSE IF q % 2 = 0 THEN q ELSE q + 1

\* Confidences are carried in units of 1/10000.
ConfidenceUnit == 10000

MovingSources == {"drone", "car_truck", "fixed_wing", "helicopter", "marine_vessel"}

\* Lines 248-252: boost (x1.3, capped at 1.0) or penalty (x0.7)
AdjustConfidenceMutNoCap(c) ==
    IF c.class \in MovingSources
    THEN [class |-> c.class, confidence |-> (c.confidence * 13) \div 10]
    ELSE [class |-> c.class, confidence |-> (c.confidence * 7) \div 10]

AdjustConfidence(c) ==
    IF c.class \in MovingSources
    THEN [class |-> c.class,
          confidence |-> Min2(ConfidenceUnit, (c.confidence * 13) \div 10)]
    ELSE [class |-> c.class, confidence |-> (c.confidence * 7) \div 10]

\* dict.get(key, default), default an optional value
Get(d, key, default) == IF key \in DOMAIN d THEN Some(d[key]) ELSE default

\* result["is_moving"] = doppler_result.get("direction") != "stationary"
IsMoving(doppler_result) ==
    Get(doppler_result, "direction", None) # Some("stationary")

\* Lines 233-257 for the candidates of lines 222-231
MergeDoppler(result, doppler_result) ==
    IF doppler_result = None THEN result
    ELSE Let([is_moving \in Val(IsMoving(doppler_result[1])) |->
         Let([candidates \in Val(IF is_moving
              THEN Let([adjusted \in Val([i \in 1..Len(result.candidates) |->
                            AdjustConfidence(result.candidates[i])]) |->
                          StableSortDescending(adjusted,
                              [i \in 1..Len(adjusted) |-> RInt(adjusted[i].confidence)])])
              ELSE result.candidates) |->
           [first_guess |-> IF is_moving THEN candidates[1].class
                            ELSE result.first_guess,
            candidates |-> candidates,
            band_energies |-> result.band_energies,
            is_moving |-> Some(is_moving),
            velocity_m_s |-> Get(doppler_result[1], "velocity_m_s",
                                 Get(doppler_result[1], "mean_velocity_m_s", None)),
            direction |-> Get(doppler_result[1], "direction",
                              Get(doppler_result[1], "dominant_direction", None)),
            method |-> "frequency_band+doppler"]])])

\* FFT size of the band-energy calls.  frequency_band_energy takes n_fft as
\* an argument (default 4096, which hybrid_classify uses); 4 is the largest
\* size whose Hann-windowed DFT is exact in integers.
BandNFft == 4

HybridClassify(audio, sr, bands, doppler_result, top_k) ==
    Let([band_energies \in Val(FrequencyBandEnergy(audio, sr, bands, BandNFft)) |->
    Let([sources \in Val(FirstOccurrences(Flatten([b \in 1..Len(band_energies) |->
                                      band_energies[b].candidate_sources]))) |->
    Let([accumulated \in Val([i \in 1..Len(sources) |-> AccumulatedScore(band_energies, sources[i])]) |->
    Let([max_score \in Val(IF sources # <<>> THEN RMax(accumulated) ELSE RInt(1)) |->
    Let([source_scores \in Val([i \in 1..Len(sources) |->
             IF max_score.n > 0 THEN RDiv(accumulated[i], max_score)
             ELSE accumulated[i]]) |->
    Let([ranked \in Val(StableSortDescending(
             [i \in 1..Len(sources) |-> [class |-> sources[i],
                                         confidence |-> source_scores[i]]],
             source_scores)) |->
    Let([top \in Val(IF ranked # <<>>
         THEN SubSeq(ranked, 1, Min2(top_k, Len(ranked)))
         ELSE <<[class |-> "unknown", confidence |-> RInt(0)]>>) |->
      MergeDoppler(
          [first_guess |-> top[1].class,
           candidates |-> [i \in 1..Len(top) |->
                              [class |-> top[i].class,
                               confidence |-> RoundMilli(top[i].confidence) * 10]],
           band_energies |-> band_energies,
           is_moving |-> None,
           velocity_m_s |-> None,
           direction |-> None,
           method |-> "frequency_band"],
          doppler_result)])])])])])])])

---------------------------------------------------------------------------
(* doa.py *)

(* gcc_phat is computed exactly for n_fft in {1, 2, 4} and integer samples.
   The spectra are then Gaussian integers.  The PHAT weighting leaves the
   sign of a real bin (0 for a zero bin, whose magnitude is raised to 1e-10)
   and (x + iy)/h with h = sqrt(x^2 + y^2) of the one complex bin, so every
   correlation value is (a + 2b/sqrt(m))/n_fft with integers a, b, m: it is
   carried as [a |-> a, b |-> b, m |-> m]. *)

\* n_fft = 1 << int(np.ceil(np.log2(n))), n >= 1
RECURSIVE PowerOfTwoFrom(_, _)
PowerOfTwoFrom(p, n) == IF p >= n THEN p ELSE PowerOfTwoFrom(2 * p, n)

NextPowerOfTwo(n) == PowerOfTwoFrom(1, n)

Sign(x) == IF x > 0 THEN 1 ELSE IF x < 0 THEN -1 ELSE 0

\* R = S1 * np.conj(S2)
CrossSpectrum(S1, S2) ==
    [k \in DOMAIN S1 |->
        [re |-> S1[k].re * S2[k].re + S1[k].im * S2[k].im,
         im |-> S1[k].im * S2[k].re - S1[k].re * S2[k].im]]

\* cc = np.fft.irfft(R / magnitude, n=n_fft), cc[j - 1] at index j.  The
\* bins 0 and n_fft/2 count once and with their real part only, bin 1 of a
\* 4-point transform counts twice.
Irfft(R, n_fft) ==
    LET real_bins == IF n_fft = 1 THEN {0} ELSE {0, n_fft \div 2}
        RealPart(k, j) == Sign(R[k].re) * TwiddleRe((4 \div n_fft) * k * j)
        m == IF n_fft = 4 THEN R[1].re * R[1].re + R[1].im * R[1].im ELSE 0
    IN  [j \in 1..n_fft |->
            [a |-> SeqSum([i \in 1..2 |->
                      IF i = 1 THEN RealPart(0, j - 1)
                      ELSE IF n_fft > 1 THEN RealPart(n_fft \div 2, j - 1)
                      ELSE 0]),
             b |-> IF m > 0
                   THEN R[1].re * TwiddleRe(j - 1) + R[1].im * TwiddleIm(j - 1)
                   ELSE 0,
             m |-> IF m > 0 THEN m ELSE 1]]

\* np.fft.fftshift(cc) = np.roll(cc, len(cc) // 2)
FftShift(cc) ==
    [j \in 1..Len(cc) |-> cc[((j - 1 - Len(cc) \div 2) % Len(cc)) + 1]]

\* The sign of P + Q * sqrt(m), m > 0
SignOfSurd(P, Q, m) ==
    CASE Q = 0 -> Sign(P)
      [] P = 0 -> Sign(Q)
      [] P > 0 /\ Q > 0 -> 1
      [] P < 0 /\ Q < 0 -> -1
      [] P > 0 /\ Q < 0 -> Sign(P * P - Q * Q * m)
      [] P < 0 /\ Q > 0 -> Sign(Q * Q * m - P * P)

\* The sign of |u| - |v| for two values of one correlation
CompareAbs(u, v) ==
    SignOfSurd((u.a * u.a - v.a * v.a) * u.m + 4 * (u.b * u.b - v.b * v.b),
               4 * (u.a * u.b - v.a * v.b), u.m)

\* np.argmax(np.abs(search_region)): the first index of the largest value
ArgMaxAbs(search_region) ==
    CHOOSE i \in 1..Len(search_region) :
        /\ \A j \in 1..Len(search_region) :
               CompareAbs(search_region[j], search_region[i]) <= 0
        /\ \A j \in 1..(i - 1) :
               CompareAbs(search_region[j], search_region[i]) < 0

\* max_shift = int(max_tau * fs) if max_tau is not None else centre
MaxShiftMutNext(max_tau, fs, centre) ==
    IF max_tau = None THEN centre ELSE RTrunc(RMul(max_tau[1], RInt(fs))) + 1

MaxShift(max_tau, fs, centre) ==
    IF max_tau = None THEN centre ELSE RTrunc(RMul(max_tau[1], RInt(fs)))

\* tau_samples = peak_idx - (centre - search_start)
TauSamples(peak_idx, centre, search_start) == peak_idx - (centre - search_start)

\* Lines 56-71 for the correlation cc of lines 41-53
PeakSearch(cc, fs, max_tau) ==
    LET centre == Len(cc) \div 2
        max_shift == MaxShift(max_tau, fs, centre)
        search_start == Max2(centre - max_shift, 0)
        search_end == Min2(centre + max_shift + 1, Len(cc))
        search_region == SubSeq(cc, search_start + 1, search_end)
        peak_idx == ArgMaxAbs(search_region) - 1
    IN  [tau |-> Rat(TauSamples(peak_idx, centre, search_start), fs),
         cc |-> cc]

GccPhat(sig1, sig2, fs, max_tau) ==
    Let([n_fft \in Val(NextPowerOfTwo(Len(sig1) + Len(sig2) - 1)) |->
    Let([R \in Val(CrossSpectrum(Rfft(PadTo(sig1, n_fft), n_fft),
                                 Rfft(PadTo(sig2, n_fft), n_fft))) |->
    Let([cc \in Val(FftShift(Irfft(R, n_fft))) |->
      PeakSearch(cc, fs, max_tau)])])])

\* np.clip(arg, -1.0, 1.0)
ClipMutHalf(x) ==
    IF RLt(x, Rat(-1, 2)) THEN Rat(-1, 2)
    ELSE IF RLt(Rat(1, 2), x) THEN Rat(1, 2) ELSE x

Clip(x) ==
    IF RLt(x, RInt(-1)) THEN RInt(-1)
    ELSE IF RLt(RInt(1), x) THEN RInt(1) ELSE x

\* The float that is not a number, 0/0
NaN == [n |-> 0, d |-> 0]

\* Division of a numpy float by a float: a zero divisor gives nan (0/0) or
\* an infinity with a RuntimeWarning, it does not raise.  Every order
\* comparison with nan is false.
FloatDiv(a, b) ==
    IF b.n # 0 THEN RDiv(a, b)
    ELSE IF a.n = 0 THEN NaN
    ELSE [n |-> Sign(a.n), d |-> 0]

\* arg = (speed_of_sound * tau) / mic_distance
DoaArgMutAbs(speed_of_sound, tau, mic_distance) ==
    FloatDiv(RMul(speed_of_sound, RAbs(tau)), mic_distance)

DoaArg(speed_of_sound, tau, mic_distance) ==
    FloatDiv(RMul(speed_of_sound, tau), mic_distance)

\* float(np.degrees(np.arcsin(arg))), -1 <= arg <= 1: the angle of
\* [-90, 90] degrees whose sine is arg, carried by its sine.  arcsin is odd
\* and increasing, arcsin(0) = 0, arcsin(-1) = -90 and arcsin(1) = 90 degrees.
DegreesArcsin(arg) == [sine |-> arg]

\* Lines 98-102 and 140-141
AngleOfDelay(tau, mic_distance, speed_of_sound) ==
    DegreesArcsin(Clip(DoaArg(speed_of_sound, tau, mic_distance)))

EstimateDoa(sig1, sig2, fs, mic_distance, speed_of_sound) ==
    Let([tau \in Val(GccPhat(sig1, sig2, fs,
                             Some(RDiv(mic_distance, speed_of_sound))).tau) |->
      AngleOfDelay(tau, mic_distance, speed_of_sound)])

\* np.linalg.norm of the difference of two positions that share all but
\* one coordinate
Norm(p, q) ==
    CASE p[2] = q[2] -> RAbs(RSub(p[1], q[1]))
      [] p[1] = q[1] -> RAbs(RSub(p[2], q[2]))

Epsilon == Rat(1, 1000000)

\* if dist < 1e-6: continue
SkipsMicrophoneMutLe(dist) == RLe(dist, Epsilon)

SkipsMicrophone(dist) == RLt(dist, Epsilon)

\* The body of the loop of estimate_doa_array for channel ch (0-based):
\* the entries it appends.  multi_channel[ch + 1] is the column
\* multi_channel[:, ch].
PairResult(multi_channel, fs, mic_positions, speed_of_sound, ref_channel, ch) ==
    IF ch = ref_channel THEN <<>>
    ELSE Let([dist \in Val(Norm(mic_positions[ch + 1],
                                mic_positions[ref_channel + 1])) |->
           IF SkipsMicrophone(dist) THEN <<>>
           ELSE Let([tau \in Val(GccPhat(multi_channel[ref_channel + 1],
                                         multi_channel[ch + 1], fs,
                                         Some(RDiv(dist, speed_of_sound))).tau) |->
                  <<[pair |-> <<ref_channel, ch>>,
                     distance_m |-> dist,
                     tdoa_s |-> tau,
                     angle_deg |-> AngleOfDelay(tau, dist, speed_of_sound)]>>])])

EstimateDoaArray(multi_channel, fs, mic_positions, speed_of_sound, ref_channel) ==
    Flatten([c \in 1..Len(multi_channel) |->
                PairResult(multi_channel, fs, mic_positions, speed_of_sound,
                           ref_channel, c - 1)])

---------------------------------------------------------------------------
(* Inputs of the Doppler calls *)

\* Largest magnitude of a bin of a chunk spectrum.
MaxMag == 2

\* Bins that carry energy in a chunk of calculate_velocity (20, 22, 24 Hz
\* at 8192 Hz; every other bin of the 4096-point spectrum is zero).
ChunkBins == 10..12

ChunkSpectra == [ChunkBins -> 0..MaxMag]

\* 8192 Hz: 2 Hz bins.  30 Hz: no bin lies in the 20 Hz..20 kHz band.
SampleRates == {8192, 30}

SpeedsOfSound == {RInt(343)}

VelocitySourceFrequencies == {None, Some(RInt(1000))}

\* What follows the first 4096 samples of a chunk: nothing (the chunk has
\* at most 4096 samples), or 4096 more samples, given by the spectrum of
\* that second half alone: a 24 Hz tone.  dominant_frequency reads
\* audio[:n_fft] only, so CalculateVelocity takes the spectrum of the first
\* 4096 samples and never the tail.
ChunkTails == {None, Some([k \in ChunkBins |-> IF k = 12 THEN 1 ELSE 0])}

\* Magnitudes of bins 2 and 3 of a frame spectrum of frequency_track: a
\* silent frame, a peak at 20 Hz, at 30 Hz, and between the two.
FrameShapes == {<<0, 0>>, <<1, 0>>, <<0, 1>>, <<1, 2>>}

\* Bins that carry energy in a frame (20 and 30 Hz for 8 samples at 80 Hz).
FrameBins == 2..3

ZeroFrame == [k \in FrameBins |-> 0]

\* A frame of at most one sample is zero after the Hann window.
FrameSpectra(n) ==
    IF n <= 1 THEN {ZeroFrame} ELSE {[k \in FrameBins |-> s[k - 1]] : s \in FrameShapes}

\* Longest buffer and longest track
MaxSamples == 16

MaxFrames == 3

TrackSampleRates == {80, 30}

FrameLengths == {Rat(1, 10), Rat(1, 20)}

HopLengths == {Rat(1, 20), Rat(1, 40)}

\* No source frequency, 22 Hz, and 20 - 2/343 Hz, for which a 20 Hz frame
\* has velocity 0.1 m/s exactly
TrackSourceFrequencies == {None, Some(RInt(22)), Some(Rat(6858, 343))}

Distances == {None, Some(RInt(100))}

---------------------------------------------------------------------------
(* Inputs of the band-energy and hybrid calls *)

\* Longest buffer, largest sample, largest top_k
MaxAudioLen == 3

MaxSample == 2

MaxTopK == 2

RECURSIVE SeqsUpTo(_, _)
SeqsUpTo(S, n) ==
    IF n = 0 THEN {<<>>}
    ELSE SeqsUpTo(S, n - 1) \cup [1..n -> S]

Audios == SeqsUpTo(0..MaxSample, MaxAudioLen)

\* Bins of the 4-point spectrum: 0/200/400 Hz and 0/4/8 kHz
BandSampleRates == {800, 16000}

\* A caller's table with overlapping bands, one of them reaching down to 0 Hz
OverlapBands ==
    << FrequencyBand("low", 0, 500, <<"drone", "whale">>),
       FrequencyBand("wide", 200, 2000, <<"whale", "siren">>) >>

BandTables == {None, Some(OverlapBands), Some(<<>>)}

\* Doppler contexts: results of calculate_velocity, summaries of
\* full_doppler_analysis, or none.
ContextChunks == {[k \in ChunkBins |-> IF k = 11 THEN 1 ELSE 0],
                  [k \in ChunkBins |-> IF k = 12 THEN 1 ELSE 0]}

\* A stationary and a receding pair: chunk2 is the 22 Hz chunk
VelocityContexts ==
    {CalculateVelocity(c1, [k \in ChunkBins |-> IF k = 11 THEN 1 ELSE 0],
                       8192, None, RInt(343)) :
        c1 \in ContextChunks}

\* One frame at 30 Hz: stationary without a source frequency, approaching
\* against 22 Hz
ContextAudios ==
    {[n |-> 8, spectra |-> <<[k \in FrameBins |-> IF k = 3 THEN 1 ELSE 0]>>]}

ContextSourceFrequencies == {None, Some(RInt(22))}

SummaryContexts ==
    {FullDopplerAnalysis(x[1], 80, x[2], RInt(343), Rat(1, 10), Rat(1, 20),
                         None, x[3]).summary :
        x \in {y \in ContextAudios \X ContextSourceFrequencies
                       \X {"stationary", "approaching", "receding"} :
                  y[3] \in DominantDirections(
                      DirectionsOf(y[1], 80, y[2], RInt(343), Rat(1, 10),
                                   Rat(1, 20), None))}}

DopplerContexts ==
    {None} \cup {Some(c) : c \in VelocityContexts \cup SummaryContexts}

---------------------------------------------------------------------------
(* Inputs of the direction-of-arrival calls *)

\* Largest sample and largest number of channels
MaxDoaSample == 1

MaxChannels == 3

\* Signals of one or two samples: n_fft is then 1, 2 or 4, the sizes whose
\* transform is exact in integers.
DoaSignals == [1..1 -> -MaxDoaSample..MaxDoaSample]
                  \cup [1..2 -> -MaxDoaSample..MaxDoaSample]

DoaSampleRates == {16000, 8000}

\* No limit, or 150, 100, 30 and 0 microseconds
MaxTaus == {None, Some(Rat(3, 20000)), Some(Rat(1, 10000)),
            Some(Rat(3, 100000)), Some(RInt(0))}

\* 5 cm, 3 cm and 1 cm; 0.5 micrometres and 0: degenerate geometry
MicDistances == {Rat(1, 20), Rat(3, 100), Rat(1, 100), Rat(1, 2000000), RInt(0)}

\* Columns of a two-sample recording: a click, early or late
ArrayColumns == {<<1, 0>>, <<0, 1>>}

\* Sample rate of the array recordings
ArraySampleRates == {16000}

\* Microphones on a line at 0, 0.5 micrometres, 1 micrometre and 5 cm
MicPositions ==
    {<<x, RInt(0)>> : x \in {RInt(0), Rat(1, 2000000), Rat(1, 1000000), Rat(1, 20)}}

---------------------------------------------------------------------------
(* acquisitions/hal/sixteen_mems.py *)

CHANNELS == 16

\* seq (4) + sample_count (4)
HEADER_SIZE == 8

\* Bytes of one int16 sample
SampleBytes == 2

\* Row `row` of the `packet`-th datagram received, CHANNELS samples wide.
Frame(packet, row) == [packet |-> packet, row |-> row, channels |-> CHANNELS]

\* A row of np.zeros((k, CHANNELS))
ZeroRow == Frame(0, 0)

Zeros(k) == [i \in 1..k |-> ZeroRow]

\* deque(maxlen=buf_frames).append(frame): a full deque drops its oldest
\* item, a deque of length 0 keeps nothing.
DequeAppend(buffer, maxlen, frame) ==
    IF maxlen = 0 THEN buffer
    ELSE IF Len(buffer) >= maxlen THEN Append(Tail(buffer), frame)
    ELSE Append(buffer, frame)

\* Lines 96-102: _dropped_packets after a datagram with sequence number seq
DroppedPackets(last_seq, dropped_packets, seq) ==
    IF last_seq >= 0 /\ seq # last_seq + 1
    THEN dropped_packets + (seq - last_seq - 1)
    ELSE dropped_packets

\* Lines 104-116 (sample_format "int16"): the rows of a payload of
\* payload_bytes bytes; samples beyond the last whole row are left out.
DecodedFrames(packet, payload_bytes) ==
    [row \in 1..((payload_bytes \div SampleBytes) \div CHANNELS) |-> Frame(packet, row)]

\* np.frombuffer(payload, dtype=np.int16) raises ValueError when the
\* payload is not a whole number of samples
Ragged(payload_bytes) == payload_bytes % SampleBytes # 0

\* n = min(frames, available)
ChunkRowsMutAll(frames, available) == frames

ChunkRows(frames, available) == Min2(frames, available)

\* The value of the last call of the reading thread
NoResult == [kind |-> "none"]

\* Fields after __init__ (lines 56-61); buf_frames = int(sample_rate * buffer_seconds)
NewSource(buf_frames) ==
    [is_running |-> FALSE, sock |-> "None", recv_thread |-> "None",
     buffer |-> <<>>, maxlen |-> buf_frames,
     last_seq |-> -1, dropped_packets |-> 0]

\* The receive thread: not started, in recvfrom, in the loop that appends
\* the decoded frames, or ended; `received` counts the datagrams it has got.
NewReceiver == [pc |-> "not started", frames |-> <<>>, received |-> 0]

\* The reading thread: between calls ("ready") or in the list comprehension
\* of read_chunk; `delivered` lists every frame ever returned to it.
NewReader ==
    [pc |-> "ready", frames |-> 0, buffered |-> 0, n |-> 0, out |-> <<>>,
     result |-> NoResult, delivered |-> <<>>]

---------------------------------------------------------------------------
(* Inputs of the 16-microphone source *)

\* Length of the ring buffer, in frames
BufFrames == 2

\* Datagrams received in one run
MaxDatagrams == 3

\* Largest number of frames asked of read_chunk
MaxRead == 2

\* Sequence numbers carried by the datagrams
SequenceNumbers == 0..3

\* Payload sizes: empty, one byte (not a whole sample), one row and one
\* sample more, two rows
PayloadSizes ==
    {0, 1, CHANNELS * SampleBytes + SampleBytes, 2 * CHANNELS * SampleBytes}

\* Datagrams: shorter than the header, or a header and a payload
Datagrams ==
    {[size |-> HEADER_SIZE - 1, seq |-> 0]}
        \cup {[size |-> HEADER_SIZE + b, seq |-> q] : b \in PayloadSizes, q \in SequenceNumbers}

---------------------------------------------------------------------------
(* One action per call; Return goes back to idle. *)

Idle == [idle |-> TRUE]

Init ==
    /\ op = "idle" /\ args = Idle /\ res = Idle /\ mem = Idle /\ log = <<>>
    /\ default_bands = DEFAULT_BANDS
    /\ source = NewSource(BufFrames)
    /\ receiver = NewReceiver
    /\ reader = NewReader

Return ==
    /\ op # "idle"
    /\ op' = "idle"
    /\ args' = Idle
    /\ res' = Idle
    /\ mem' = Idle
    /\ log' = <<>>
    /\ UNCHANGED persistent

CallCalculateVelocity ==
    /\ op = "idle"
    /\ \E chunk1 \in ChunkSpectra, chunk2 \in ChunkSpectra,
          tail1 \in ChunkTails, tail2 \in ChunkTails,
          sample_rate \in SampleRates,
          source_frequency \in VelocitySourceFrequencies,
          speed_of_sound \in SpeedsOfSound :
        /\ op' = "calculate_velocity"
        /\ args' = [chunk1 |-> chunk1, chunk2 |-> chunk2,
                    tail1 |-> tail1, tail2 |-> tail2,
                    sample_rate |-> sample_rate,
                    source_frequency |-> source_frequency,
                    speed_of_sound |-> speed_of_sound]
        /\ res' = CalculateVelocity(chunk1, chunk2, sample_rate,
                                    source_frequency, speed_of_sound)
        /\ mem' = [chunk1 |-> chunk1, chunk2 |-> chunk2,
                   tail1 |-> tail1, tail2 |-> tail2]
        /\ log' = VelocityLog(chunk1, sample_rate, source_frequency)
        /\ UNCHANGED persistent

CallFrequencyTrack ==
    /\ op = "idle"
    /\ \E n \in 0..MaxSamples, sr \in TrackSampleRates,
          frame_length_s \in FrameLengths, hop_length_s \in HopLengths :
        LET frame_samples == RTrunc(RMul(frame_length_s, RInt(sr)))
            hop_samples   == RTrunc(RMul(hop_length_s, RInt(sr)))
        IN  /\ frame_samples >= 1
            /\ hop_samples >= 1
            /\ NFrames(n, frame_samples, hop_samples) <= MaxFrames
            /\ \E spectra \in [1..NFrames(n, frame_samples, hop_samples)
                                 -> FrameSpectra(n)] :
                /\ op' = "frequency_track"
                /\ args' = [audio |-> [n |-> n, spectra |-> spectra],
                            sr |-> sr,
                            frame_length_s |-> frame_length_s,
                            hop_length_s |-> hop_length_s,
                            low_hz |-> DefaultLowHz, high_hz |-> DefaultHighHz]
                /\ res' = FrequencyTrack([n |-> n, spectra |-> spectra], sr,
                                         frame_length_s, hop_length_s,
                                         DefaultLowHz, DefaultHighHz)
                /\ mem' = [audio |-> [n |-> n, spectra |-> spectra]]
                /\ log' = <<>>
                /\ UNCHANGED persistent

CallFullDopplerAnalysis ==
    /\ op = "idle"
    /\ \E n \in 0..MaxSamples, sr \in TrackSampleRates,
          frame_length_s \in FrameLengths, hop_length_s \in HopLengths,
          source_frequency \in TrackSourceFrequencies,
          speed_of_sound \in SpeedsOfSound, distance_m \in Distances :
        LET frame_samples == RTrunc(RMul(frame_length_s, RInt(sr)))
            hop_samples   == RTrunc(RMul(hop_length_s, RInt(sr)))
        IN  /\ frame_samples >= 1
            /\ hop_samples >= 1
            /\ NFrames(n, frame_samples, hop_samples) <= MaxFrames
            /\ \E spectra \in [1..NFrames(n, frame_samples, hop_samples)
                                 -> FrameSpectra(n)] :
                LET audio == [n |-> n, spectra |-> spectra]
                IN  \E dominant \in DominantDirections(
                            DirectionsOf(audio, sr, source_frequency,
                                         speed_of_sound, frame_length_s,
                                         hop_length_s, distance_m)) :
                        /\ op' = "full_doppler_analysis"
                        /\ args' = [audio |-> audio, sr |-> sr,
                                    source_frequency |-> source_frequency,
                                    speed_of_sound |-> speed_of_sound,
                                    frame_length_s |-> frame_length_s,
                                    hop_length_s |-> hop_length_s,
                                    distance_m |-> distance_m]
                        /\ res' = FullDopplerAnalysis(audio, sr, source_frequency,
                                      speed_of_sound, frame_length_s,
                                      hop_length_s, distance_m, dominant)
                        /\ mem' = [audio |-> audio]
                        /\ log' = <<>>
                        /\ UNCHANGED persistent

CallFrequencyBandEnergy ==
    /\ op = "idle"
    /\ \E audio \in Audios, sr \in BandSampleRates, bands \in BandTables :
        /\ op' = "frequency_band_energy"
        /\ args' = [audio |-> audio, sr |-> sr, bands |-> bands,
                    n_fft |-> BandNFft]
        /\ res' = FrequencyBandEnergy(audio, sr, bands, BandNFft)
        /\ mem' = [audio |-> CallerBuffer(audio, BandNFft), bands |-> bands]
        /\ log' = <<>>
        /\ UNCHANGED persistent

CallHybridClassify ==
    /\ op = "idle"
    /\ \E audio \in Audios, sr \in BandSampleRates, bands \in BandTables,
          doppler_result \in DopplerContexts, top_k \in 1..MaxTopK :
        /\ op' = "hybrid_classify"
        /\ args' = [audio |-> audio, sr |-> sr, bands |-> bands,
                    doppler_result |-> doppler_result, top_k |-> top_k]
        /\ res' = HybridClassify(audio, sr, bands, doppler_result, top_k)
        /\ mem' = [audio |-> CallerBuffer(audio, BandNFft), bands |-> bands,
                   doppler_result |-> doppler_result]
        /\ log' = <<>>
        /\ UNCHANGED persistent

CallGccPhat ==
    /\ op = "idle"
    /\ \E sig1 \in DoaSignals, sig2 \in DoaSignals, fs \in DoaSampleRates,
          max_tau \in MaxTaus :
        /\ op' = "gcc_phat"
        /\ args' = [sig1 |-> sig1, sig2 |-> sig2, fs |-> fs, max_tau |-> max_tau]
        /\ res' = GccPhat(sig1, sig2, fs, max_tau)
        /\ mem' = [sig1 |-> CallerBuffer(sig1, NextPowerOfTwo(Len(sig1) + Len(sig2) - 1)),
                   sig2 |-> CallerBuffer(sig2, NextPowerOfTwo(Len(sig1) + Len(sig2) - 1))]
        /\ log' = <<>>
        /\ UNCHANGED persistent

CallEstimateDoa ==
    /\ op = "idle"
    /\ \E sig1 \in DoaSignals, sig2 \in DoaSignals, fs \in DoaSampleRates,
          mic_distance \in MicDistances, speed_of_sound \in SpeedsOfSound :
        /\ op' = "estimate_doa"
        /\ args' = [sig1 |-> sig1, sig2 |-> sig2, fs |-> fs,
                    mic_distance |-> mic_distance,
                    speed_of_sound |-> speed_of_sound]
        /\ res' = EstimateDoa(sig1, sig2, fs, mic_distance, speed_of_sound)
        /\ mem' = [sig1 |-> CallerBuffer(sig1, NextPowerOfTwo(Len(sig1) + Len(sig2) - 1)),
                   sig2 |-> CallerBuffer(sig2, NextPowerOfTwo(Len(sig1) + Len(sig2) - 1))]
        /\ log' = <<>>
        /\ UNCHANGED persistent

CallEstimateDoaArray ==
    /\ op = "idle"
    /\ \E n_channels \in 2..MaxChannels, fs \in ArraySampleRates,
          speed_of_sound \in SpeedsOfSound :
        \E multi_channel \in [1..n_channels -> ArrayColumns],
           mic_positions \in [1..n_channels -> MicPositions],
           ref_channel \in 0..(n_channels - 1) :
            /\ op' = "estimate_doa_array"
            /\ args' = [multi_channel |-> multi_channel, fs |-> fs,
                        mic_positions |-> mic_positions,
                        speed_of_sound |-> speed_of_sound,
                        ref_channel |-> ref_channel]
            /\ res' = EstimateDoaArray(multi_channel, fs, mic_positions,
                                       speed_of_sound, ref_channel)
            /\ mem' = [multi_channel |->
                          [c \in 1..n_channels |->
                              CallerBuffer(multi_channel[c],
                                  NextPowerOfTwo(2 * Len(multi_channel[c]) - 1))],
                       mic_positions |-> mic_positions]
            /\ log' = <<>>
            /\ UNCHANGED persistent

\* The entries of a returned band list whose candidate list the caller edits.
EditedEntries == {1, 2}

\* The per-band entries of the value a band-energy call has returned.
ReturnedBands == IF op = "hybrid_classify" THEN res.band_energies ELSE res

\* list.clear() on the candidate_sources list of entry b
ClearedEntry(table, b) == [table EXCEPT ![b].candidate_sources = <<>>]

\* The caller clears result[b]["candidate_sources"] of the value the call has
\* just returned.  frequency_band_energy stores band.candidate_sources itself
\* in the entry (line 145), and hybrid_classify returns those entries as
\* band_energies (line 226): the list cleared is the list of band b of the
\* table the call used, the module's default table when bands was None.
EditReturnedCandidates ==
    /\ op \in {"frequency_band_energy", "hybrid_classify"}
    /\ \E b \in EditedEntries :
        /\ b <= Len(ReturnedBands)
        /\ ReturnedBands[b].candidate_sources # <<>>
        /\ res' = IF op = "hybrid_classify"
                  THEN [res EXCEPT !.band_energies = ClearedEntry(@, b)]
                  ELSE ClearedEntry(res, b)
        /\ IF args.bands = None
           THEN /\ default_bands' = ClearedEntry(default_bands, b)
                /\ mem' = mem
           ELSE /\ mem' = [mem EXCEPT !.bands = Some(ClearedEntry(@[1], b))]
                /\ default_bands' = default_bands
        /\ UNCHANGED <<op, args, log>>
        /\ UNCHANGED hardware

---------------------------------------------------------------------------
(* The 16-microphone source: the reading thread *)

\* connect(), lines 64-74: called on a source that is not connected and
\* whose earlier receive thread, if any, has ended (stop joins it)
Connect ==
    /\ reader.pc = "ready"
    /\ ~source.is_running
    /\ receiver.pc \in {"not started", "ended"}
    /\ source' = [source EXCEPT !.sock = "socket", !.is_running = TRUE,
                                !.recv_thread = "Thread"]
    /\ receiver' = [receiver EXCEPT !.pc = "recvfrom", !.frames = <<>>]
    /\ reader' = [reader EXCEPT !.result = NoResult]
    /\ UNCHANGED <<calls, default_bands>>

\* stop(), lines 136-143
Stop ==
    /\ reader.pc = "ready"
    /\ source.is_running
    /\ source' = [source EXCEPT !.is_running = FALSE, !.sock = "None",
                                !.recv_thread = "None"]
    /\ reader' = [reader EXCEPT !.result = NoResult]
    /\ UNCHANGED <<calls, default_bands, receiver>>

\* get_info(), lines 145-155
GetInfo ==
    /\ reader.pc = "ready"
    /\ reader' = [reader EXCEPT !.result =
                      [kind |-> "info", channels |-> CHANNELS,
                       buffer_len |-> Len(source.buffer),
                       dropped_packets |-> source.dropped_packets]]
    /\ UNCHANGED <<calls, default_bands, source, receiver>>

\* read_chunk(frames), lines 120-126: RuntimeError when not running; zeros
\* when nothing is buffered; otherwise on to the n popleft calls
ReadChunk ==
    /\ reader.pc = "ready"
    /\ \E frames \in 0..MaxRead :
        IF ~source.is_running
        THEN reader' = [reader EXCEPT !.result = [kind |-> "RuntimeError"]]
        ELSE LET available == Len(source.buffer)
                 n == ChunkRows(frames, available)
             IN  IF n = 0
                 THEN reader' = [reader EXCEPT !.result =
                                    [kind |-> "array", frames |-> frames,
                                     buffered |-> available,
                                     rows |-> Zeros(frames)]]
                 ELSE reader' = [reader EXCEPT !.pc = "popleft",
                                    !.frames = frames, !.buffered = available,
                                    !.n = n, !.out = <<>>, !.result = NoResult]
    /\ UNCHANGED <<calls, default_bands, source, receiver>>

\* One self._buffer.popleft() of line 128; IndexError on an empty deque
PopLeft ==
    /\ reader.pc = "popleft"
    /\ Len(reader.out) < reader.n
    /\ IF source.buffer = <<>>
       THEN /\ reader' = [reader EXCEPT !.pc = "ready", !.frames = 0,
                              !.buffered = 0, !.n = 0, !.out = <<>>,
                              !.result = [kind |-> "IndexError"]]
            /\ source' = source
       ELSE /\ reader' = [reader EXCEPT !.out = Append(@, Head(source.buffer)),
                              !.delivered = Append(@, Head(source.buffer))]
            /\ source' = [source EXCEPT !.buffer = Tail(@)]
    /\ UNCHANGED <<calls, default_bands, receiver>>

\* Lines 128-134: the rows popped, zero-padded to `frames` rows
ReturnChunk ==
    /\ reader.pc = "popleft"
    /\ Len(reader.out) = reader.n
    /\ reader' = [reader EXCEPT !.pc = "ready", !.frames = 0, !.buffered = 0,
                      !.n = 0, !.out = <<>>,
                      !.result = [kind |-> "array", frames |-> reader.frames,
                                  buffered |-> reader.buffered,
                                  rows |-> IF Len(reader.out) < reader.frames
                                           THEN reader.out \o Zeros(reader.frames - Len(reader.out))
                                           ELSE reader.out]]
    /\ UNCHANGED <<calls, default_bands, source, receiver>>

(* The 16-microphone source: the receive thread *)

\* Lines 77-81 and _decode_packet: one datagram received and decoded.  A
\* datagram shorter than the header is ignored; otherwise the sequence
\* number is accounted for, a ragged payload ends the thread with
\* ValueError (caught nowhere) and a payload without a whole row gives None.
RecvFrom ==
    /\ receiver.pc = "recvfrom"
    /\ source.is_running
    /\ source.sock = "socket"
    /\ receiver.received < MaxDatagrams
    /\ \E raw \in Datagrams :
        IF raw.size < HEADER_SIZE
        THEN /\ receiver' = [receiver EXCEPT !.received = @ + 1]
             /\ source' = source
        ELSE LET frames == DecodedFrames(receiver.received + 1, raw.size - HEADER_SIZE)
             IN  /\ source' = [source EXCEPT
                        !.dropped_packets = DroppedPackets(source.last_seq, @, raw.seq),
                        !.last_seq = raw.seq]
                 /\ receiver' = [receiver EXCEPT
                        !.received = @ + 1,
                        !.pc = IF Ragged(raw.size - HEADER_SIZE) THEN "ended"
                               ELSE IF frames = <<>> THEN "recvfrom"
                               ELSE "append",
                        !.frames = IF Ragged(raw.size - HEADER_SIZE) THEN <<>>
                                   ELSE frames]
    /\ UNCHANGED <<calls, default_bands, reader>>

\* Lines 82-83: one self._buffer.append(frame)
AppendFrame ==
    /\ receiver.pc = "append"
    /\ source' = [source EXCEPT !.buffer =
                      DequeAppend(@, source.maxlen, Head(receiver.frames))]
    /\ receiver' = [receiver EXCEPT !.frames = Tail(@),
                        !.pc = IF Tail(receiver.frames) = <<>> THEN "recvfrom"
                               ELSE "append"]
    /\ UNCHANGED <<calls, default_bands, reader>>

\* The loop ends: is_running is false at line 77, or recvfrom on the closed
\* socket raises OSError (line 86)
ReceiverExit ==
    /\ receiver.pc = "recvfrom"
    /\ ~source.is_running
    /\ receiver' = [receiver EXCEPT !.pc = "ended"]
    /\ UNCHANGED <<calls, default_bands, source, reader>>

NextDoa ==
    \/ CallGccPhat
    \/ CallEstimateDoa
    \/ CallEstimateDoaArray
    \/ Return

SpecDoa == Init /\ [][NextDoa]_vars

NextHybrid ==
    \/ CallFrequencyBandEnergy
    \/ CallHybridClassify
    \/ Return

SpecHybrid == Init /\ [][NextHybrid]_vars

NextDoppler ==
    \/ CallCalculateVelocity
    \/ CallFrequencyTrack
    \/ CallFullDopplerAnalysis
    \/ Return

SpecDoppler == Init /\ [][NextDoppler]_vars

NextAll ==
    \/ CallGccPhat
    \/ CallEstimateDoa
    \/ CallEstimateDoaArray
    \/ CallFrequencyBandEnergy
    \/ CallHybridClassify
    \/ CallCalculateVelocity
    \/ CallFrequencyTrack
    \/ CallFullDopplerAnalysis
    \/ Return

SpecAll == Init /\ [][NextAll]_vars

\* The band-energy calls with a caller that edits what they returned.
NextBands ==
    \/ CallFrequencyBandEnergy
    \/ CallHybridClassify
    \/ EditReturnedCandidates
    \/ Return

SpecBands == Init /\ [][NextBands]_vars

\* The 16-microphone source with its reading and its receive thread
NextMems ==
    \/ Connect
    \/ ReadChunk
    \/ PopLeft
    \/ ReturnChunk
    \/ GetInfo
    \/ Stop
    \/ RecvFrom
    \/ AppendFrame
    \/ ReceiverExit

SpecMems == Init /\ [][NextMems]_vars

---------------------------------------------------------------------------
(* Claims on doppler.py, checked under SpecDoppler *)

F1OfCall == DominantFrequency(args.chunk1, args.sample_rate, DefaultNFft,
                              DefaultLowHz, DefaultHighHz)

F2OfCall == DominantFrequency(args.chunk2, args.sample_rate, DefaultNFft,
                              DefaultLowHz, DefaultHighHz)

\* C4: calculate_velocity labels the pair "stationary" whenever |f2 - f1| < 2,
\* "approaching" exactly when f2 - f1 >= 2 and "receding" exactly when
\* f2 - f1 <= -2, f1 and f2 being the dominant frequencies of the chunks.
C4_DirectionByTolerance ==
    op = "calculate_velocity" =>
        LET delta == RSub(F2OfCall, F1OfCall)
        IN  /\ (RLt(RInt(-2), delta) /\ RLt(delta, RInt(2)))
                   => res.direction = "stationary"
            /\ res.direction = "approaching" <=> RLe(RInt(2), delta)
            /\ res.direction = "receding" <=> RLe(delta, RInt(-2))

\* A pair exactly at the tolerance: f2 - f1 = 2 Hz, labelled approaching.
C4_Witness ==
    /\ op = "calculate_velocity"
    /\ res.delta_f_hz = RInt(2)
    /\ res.direction = "approaching"

FrameSamplesOfCall == RTrunc(RMul(args.frame_length_s, RInt(args.sr)))

HopSamplesOfCall == RTrunc(RMul(args.hop_length_s, RInt(args.sr)))

\* C5: frequency_track returns times and frequencies of length
\* max(1, floor((N - frame_samples) / hop_samples) + 1).
C5_TrackLength ==
    op = "frequency_track" =>
        LET room == args.audio.n - FrameSamplesOfCall
            expected == IF room < 0 THEN 1
                        ELSE (room - (room % HopSamplesOfCall))
                                 \div HopSamplesOfCall + 1
        IN  /\ Len(res.times) = expected
            /\ Len(res.freqs) = expected

\* A track of three frames whose last hop does not end at the buffer's end.
C5_Witness ==
    /\ op = "frequency_track"
    /\ Len(res.times) = 3
    /\ (args.audio.n - FrameSamplesOfCall) % HopSamplesOfCall # 0

\* C10: without a source frequency, full_doppler_analysis takes as reference
\* the first non-zero frequency of the track, and 1000 Hz when every frame
\* has frequency 0.
C10_ReferenceIsFirstNonZero ==
    (op = "full_doppler_analysis" /\ args.source_frequency = None) =>
        LET f  == res.frequencies
            nz == {i \in 1..Len(f) : f[i].n > 0}
        IN  IF nz = {}
            THEN res.local_source_frequency = RInt(1000)
            ELSE res.local_source_frequency = f[SetMin(nz)]

\* A track whose first two frames have different non-zero frequencies.
C10_Witness ==
    /\ op = "full_doppler_analysis"
    /\ args.source_frequency = None
    /\ Len(res.frequencies) >= 2
    /\ res.frequencies[1].n > 0
    /\ res.frequencies[1] # res.frequencies[2]
    /\ res.local_source_frequency = res.frequencies[1]

\* C11: in full_doppler_analysis the travel time of a frame is defined
\* exactly when a distance was supplied and the frame's |velocity| > 0.1;
\* it is then distance / |velocity| and at most 10 x distance, and it is
\* null in every other case.
C11_TravelTimeAboveThreshold ==
    op = "full_doppler_analysis" =>
        /\ Len(res.travel_times) = Len(res.velocities)
        /\ \A i \in 1..Len(res.velocities) :
               LET speed == RAbs(res.velocities[i])
                   tt == res.travel_times[i]
               IN  /\ tt # None <=>
                          (args.distance_m # None /\ RLt(Rat(1, 10), speed))
                   /\ tt # None =>
                          /\ RMul(tt[1], speed) = args.distance_m[1]
                          /\ RLe(tt[1], RMul(RInt(10), args.distance_m[1]))

\* A track with a frame at 0.1 m/s exactly (no travel time) and a faster
\* frame (travel time defined)
C11_Witness ==
    /\ op = "full_doppler_analysis"
    /\ args.distance_m # None
    /\ \E i, j \in 1..Len(res.velocities) :
          /\ RAbs(res.velocities[i]) = Rat(1, 10)
          /\ res.travel_times[i] = None
          /\ res.travel_times[j] # None
          /\ RLt(RInt(0), res.travel_times[j][1])

\* C12: the summary's dominant_direction is a label of the per-frame
\* directions that occurs at least as often as every other label, n_frames
\* is the number of frames of the track, max_velocity_m_s is the largest
\* |velocity| of a frame and mean_velocity_m_s the mean of the velocities.
C12_SummaryAggregates ==
    op = "full_doppler_analysis" =>
        LET d == res.directions
            v == res.velocities
            s == res.summary
        IN  /\ s.dominant_direction \in Range(d)
            /\ \A l \in Range(d) : Count(d, l) <= Count(d, s.dominant_direction)
            /\ s.n_frames = Len(res.frequencies)
            /\ s.n_frames = NFrames(args.audio.n, FrameSamplesOfCall,
                                    HopSamplesOfCall)
            /\ \E i \in 1..Len(v) : s.max_velocity_m_s = RAbs(v[i])
            /\ \A i \in 1..Len(v) : RLe(RAbs(v[i]), s.max_velocity_m_s)
            /\ RMul(s.mean_velocity_m_s, RInt(Len(v))) = RSum(v)

\* Three frames, two of them with the label that wins the vote, and
\* velocities of both signs
C12_Witness ==
    /\ op = "full_doppler_analysis"
    /\ Len(res.directions) = 3
    /\ Count(res.directions, res.summary.dominant_direction) = 2
    /\ \E i, j \in 1..3 : res.velocities[i].n < 0 /\ res.velocities[j].n > 0
    /\ RLt(res.summary.mean_velocity_m_s, res.summary.max_velocity_m_s)

SilentSpectrum(spec) == \A k \in DOMAIN spec : spec[k] = 0

\* The dominant frequency over a whole chunk, for the chunks where the
\* model can tell it: a chunk of at most 4096 samples, and a chunk whose
\* first 4096 samples are silent (its spectrum is that of its second half).
WholeChunkFrequency(head, tail, sample_rate) ==
    DominantFrequency(IF tail = None THEN head ELSE tail[1], sample_rate,
                      DefaultNFft, DefaultLowHz, DefaultHighHz)

\* C15: calculate_velocity takes f1 and f2 as the dominant frequency over
\* the whole of chunk1 and the whole of chunk2, samples after index 4096
\* included.
C15_WholeChunkFrequencies ==
    op = "calculate_velocity" =>
        /\ (args.tail1 = None \/ SilentSpectrum(args.chunk1)) =>
               res.f1_hz = WholeChunkFrequency(args.chunk1, args.tail1,
                                               args.sample_rate)
        /\ (args.tail2 = None \/ SilentSpectrum(args.chunk2)) =>
               res.f2_hz = WholeChunkFrequency(args.chunk2, args.tail2,
                                               args.sample_rate)

\* The call that separates the code from C15: 4096 silent samples followed
\* by a 24 Hz tone give the frequency of a silent chunk
C15_TailIgnored ==
    /\ op = "calculate_velocity"
    /\ args.sample_rate = 8192
    /\ SilentSpectrum(args.chunk1)
    /\ args.tail1 # None
    /\ WholeChunkFrequency(args.chunk1, args.tail1, args.sample_rate) = RInt(24)
    /\ res.f1_hz = RInt(20)

\* Every frame of the buffer is silent
SilentTrack(audio) ==
    \A i \in DOMAIN audio.spectra : SilentSpectrum(audio.spectra[i])

\* Some rfft bin of a frame lies in the search band
SearchBandOfCall ==
    MaskLo(args.sr, FrameSamplesOfCall, DefaultLowHz)
        <= MaskHi(args.sr, FrameSamplesOfCall, DefaultHighHz)

\* C17: over an all-zero buffer the dominant frequency of every frame is
\* 0.0 (search band not empty), and full_doppler_analysis reports frequency
\* 0.0, velocity 0 and direction "stationary" for every frame, with or
\* without a source frequency.
C17_SilenceIsZeroAndStationary ==
    /\ (op = "frequency_track" /\ SilentTrack(args.audio) /\ SearchBandOfCall) =>
           \A i \in 1..Len(res.freqs) : res.freqs[i] = RInt(0)
    /\ (op = "full_doppler_analysis" /\ SilentTrack(args.audio)) =>
           \A i \in 1..Len(res.frequencies) :
               /\ res.frequencies[i] = RInt(0)
               /\ res.velocities[i] = RInt(0)
               /\ res.directions[i] = "stationary"

\* The call that separates the code from C17: a silent buffer and a source
\* frequency of 22 Hz give 20 Hz frames that recede at 34.3 m/s
C17_SilenceReportedReceding ==
    /\ op = "full_doppler_analysis"
    /\ SilentTrack(args.audio)
    /\ args.source_frequency = Some(RInt(22))
    /\ \A i \in 1..Len(res.frequencies) :
           /\ res.frequencies[i] = RInt(20)
           /\ res.velocities[i] = Rat(-343, 10)
           /\ res.directions[i] = "receding"

\* The results full_doppler_analysis can return for the arguments of the call
ResultsOfCall ==
    {FullDopplerAnalysis(args.audio, args.sr, args.source_frequency,
                         args.speed_of_sound, args.frame_length_s,
                         args.hop_length_s, args.distance_m, dominant) :
        dominant \in DominantDirections(res.directions)}

\* C18: identical inputs give identical outputs: the arguments of a
\* full_doppler_analysis call determine its result, dominant_direction
\* included.
C18_OneResultPerCall ==
    op = "full_doppler_analysis" =>
        /\ res \in ResultsOfCall
        /\ Cardinality(ResultsOfCall) = 1

\* Two frames with different labels: either label can be reported
C18_TiedDirections ==
    /\ op = "full_doppler_analysis"
    /\ Len(res.directions) = 2
    /\ res.directions[1] = "stationary"
    /\ res.directions[2] = "approaching"
    /\ {r.summary.dominant_direction : r \in ResultsOfCall}
           = {"stationary", "approaching"}

\* C20: no call emits a log record; in particular calculate_velocity logs
\* nothing, with or without a source frequency.
C20_NoLogRecord ==
    op # "idle" => log = <<>>

\* The call that separates the code from C20: no source frequency
C20_InfoRecordEmitted ==
    /\ op = "calculate_velocity"
    /\ args.source_frequency = None
    /\ Len(log) = 1
    /\ log[1].level = "INFO"
    /\ log[1].source_frequency = res.source_frequency_hz

---------------------------------------------------------------------------
(* Claims on frequency_filter.py, checked under SpecHybrid *)

\* The direction a Doppler context reports, under either documented key
ContextDirection(ctx) ==
    IF "direction" \in DOMAIN ctx THEN ctx.direction ELSE ctx.dominant_direction

\* The candidates hybrid_classify returns for the same call without context
CandidatesWithoutContext ==
    HybridClassify(args.audio, args.sr, args.bands, None, args.top_k).candidates

\* C1: given a Doppler context, is_moving is true exactly when the direction
\* of the context (key "direction" or key "dominant_direction") is not
\* "stationary", and a stationary context leaves every confidence as it is
\* without context.
C1_MovingIffNotStationary ==
    (op = "hybrid_classify" /\ args.doppler_result # None) =>
        LET dir == ContextDirection(args.doppler_result[1])
        IN  /\ res.is_moving = Some(dir # "stationary")
            /\ dir = "stationary" => res.candidates = CandidatesWithoutContext

\* The call that separates the code from C1: a stationary track summary
C1_StationarySummaryCall ==
    /\ op = "hybrid_classify"
    /\ args.doppler_result # None
    /\ "dominant_direction" \in DOMAIN args.doppler_result[1]
    /\ args.doppler_result[1].dominant_direction = "stationary"
    /\ res.is_moving = Some(TRUE)
    /\ res.candidates # CandidatesWithoutContext

SumOfEnergies == RSum([b \in 1..Len(res) |-> res[b].energy])

EnergiesInUnitInterval ==
    \A b \in 1..Len(res) :
        RLe(RInt(0), res[b].energy) /\ RLe(res[b].energy, RInt(1))

Silent(audio) == \A j \in 1..Len(audio) : audio[j] = 0

\* Power of the windowed spectrum summed over the bands of the call's table
TotalBandEnergyOfCall ==
    LET bands == IF args.bands = None THEN DEFAULT_BANDS ELSE args.bands[1]
        spectrum == PowerSpectrum(args.audio, args.n_fft)
    IN  SeqSum([b \in 1..Len(bands) |->
                   RawBandEnergy(spectrum, args.sr, args.n_fft, bands[b])])

\* C2 as stated: the normalised energies sum to 1 whenever some sample is
\* non-zero and to 0 when every sample is zero, and each lies in [0,1].
C2_SumIsOneUnlessSilent ==
    op = "frequency_band_energy" =>
        /\ SumOfEnergies = (IF Silent(args.audio) THEN RInt(0) ELSE RInt(1))
        /\ EnergiesInUnitInterval

\* C2: the normalised energies sum to 1 whenever the windowed spectrum has
\* power in some band of the table, every one of them is 0 otherwise, and
\* each lies in [0,1].
C2_SumIsOneIffBandEnergy ==
    op = "frequency_band_energy" =>
        /\ TotalBandEnergyOfCall > 0 => SumOfEnergies = RInt(1)
        /\ TotalBandEnergyOfCall = 0 =>
               \A b \in 1..Len(res) : res[b].energy = RInt(0)
        /\ EnergiesInUnitInterval

C2_Witness ==
    /\ op = "frequency_band_energy"
    /\ TotalBandEnergyOfCall > 0
    /\ SumOfEnergies = RInt(1)
    /\ Cardinality({b \in 1..Len(res) : res[b].energy.n > 0}) >= 2
    /\ \E b \in 1..Len(res) : res[b].energy \notin {RInt(0), Rat(1, 2)}

\* A buffer that is not silent and whose energies do not sum to 1
C2_NonSilentSumsToZero ==
    /\ op = "frequency_band_energy"
    /\ ~Silent(args.audio)
    /\ args.bands = None
    /\ SumOfEnergies = RInt(0)

\* C3: every confidence hybrid_classify returns lies in [0,1], with or
\* without Doppler context, after boost and penalty.
C3_ConfidenceInUnitInterval ==
    op = "hybrid_classify" =>
        \A i \in 1..Len(res.candidates) :
            /\ res.candidates[i].confidence >= 0
            /\ res.candidates[i].confidence <= ConfidenceUnit

\* A boosted candidate held at the cap next to a candidate with the penalty
C3_Witness ==
    /\ op = "hybrid_classify"
    /\ res.is_moving = Some(TRUE)
    /\ \E i \in 1..Len(res.candidates) :
          /\ res.candidates[i].class \in MovingSources
          /\ res.candidates[i].confidence = ConfidenceUnit
          /\ \E c \in Range(CandidatesWithoutContext) :
                /\ c.class = res.candidates[i].class
                /\ c.confidence * 13 > ConfidenceUnit * 10
    /\ \E i \in 1..Len(res.candidates) :
          /\ res.candidates[i].class \notin MovingSources
          /\ res.candidates[i].confidence > 0
          /\ res.candidates[i].confidence < ConfidenceUnit

\* The band energies behind a hybrid_classify call
BandEnergiesOfCall ==
    FrequencyBandEnergy(args.audio, args.sr, args.bands, BandNFft)

\* The labels that some band of band_energies lists as a candidate
ScoredLabels(band_energies) ==
    UNION {Range(band_energies[b].candidate_sources) :
              b \in 1..Len(band_energies)}

\* The sum of the normalised energies of the bands that list label l
ScoreOf(band_energies, l) ==
    RSum([b \in 1..Len(band_energies) |->
             IF l \in Range(band_energies[b].candidate_sources)
             THEN band_energies[b].energy ELSE RInt(0)])

\* The score of every scored label
ScoresOfCall ==
    Let([be \in Val(BandEnergiesOfCall) |->
           [l \in ScoredLabels(be) |-> ScoreOf(be, l)]])

LargestScore(scores) ==
    CHOOSE x \in Range(scores) : \A l \in DOMAIN scores : RLe(scores[l], x)

\* C13 as stated: before any Doppler adjustment the top-ranked label has
\* confidence 1.0, for any buffer and band table.
C13_TopConfidenceIsOne ==
    op = "hybrid_classify" =>
        CandidatesWithoutContext[1].confidence = ConfidenceUnit

\* C13: before any Doppler adjustment every candidate has the score of its
\* label, the sum of the normalised energies of the bands that list it,
\* divided by the largest score and rounded to three decimals; the top
\* candidate has confidence 1.0 whenever some label has a positive score,
\* and 0.0 otherwise (no band energy, or an empty table: label "unknown").
C13_TopIsOneIfSomeScore ==
    op = "hybrid_classify" =>
        Let([pre \in Val(CandidatesWithoutContext) |->
        Let([scores \in Val(ScoresOfCall) |->
          /\ args.doppler_result = None => res.candidates = pre
          /\ (\E l \in DOMAIN scores : scores[l].n > 0) =>
                 Let([largest \in Val(LargestScore(scores)) |->
                   /\ pre[1].confidence = ConfidenceUnit
                   /\ \A i \in 1..Len(pre) :
                          /\ pre[i].class \in DOMAIN scores
                          /\ pre[i].confidence =
                                 10 * RoundMilli(RDiv(scores[pre[i].class],
                                                      largest))])
          /\ (\A l \in DOMAIN scores : scores[l].n = 0) =>
                 /\ \A i \in 1..Len(pre) : pre[i].confidence = 0
                 /\ DOMAIN scores = {} =>
                        pre = <<[class |-> "unknown", confidence |-> 0]>>])])

\* A label listed by two bands that both carry energy, ahead of a label
\* listed by one of them
C13_Witness ==
    /\ op = "hybrid_classify"
    /\ args.doppler_result = None
    /\ Len(res.candidates) = 2
    /\ res.candidates[1].confidence = ConfidenceUnit
    /\ res.candidates[2].confidence \in 1..(ConfidenceUnit - 1)
    /\ Cardinality({b \in 1..Len(BandEnergiesOfCall) :
            /\ res.candidates[1].class
                   \in Range(BandEnergiesOfCall[b].candidate_sources)
            /\ BandEnergiesOfCall[b].energy.n > 0}) = 2

\* A buffer with no band energy: the top candidate has confidence 0
C13_TopConfidenceZero ==
    /\ op = "hybrid_classify"
    /\ args.bands = None
    /\ args.doppler_result = None
    /\ res.candidates[1].confidence = 0
    /\ res.first_guess = "helicopter"

\* Every scored label after the Doppler adjustment, best first
AllAdjusted ==
    HybridClassify(args.audio, args.sr, args.bands, args.doppler_result,
                   Cardinality(DOMAIN ScoresOfCall) + 1).candidates

\* C14: when the context indicates motion, the candidates are the top_k of
\* all scored labels by adjusted confidence (x1.3 capped at 1.0 for the
\* moving-source labels, x0.7 for the others) and first_guess is a label of
\* the highest adjusted confidence.
C14_TopOfAllAdjustedLabels ==
    (op = "hybrid_classify" /\ res.is_moving = Some(TRUE)) =>
        /\ Len(res.candidates) = Min2(args.top_k, Len(AllAdjusted))
        /\ \A i \in 1..Len(res.candidates) :
               res.candidates[i].confidence = AllAdjusted[i].confidence
        /\ \E i \in 1..Len(AllAdjusted) :
               /\ AllAdjusted[i].class = res.first_guess
               /\ AllAdjusted[i].confidence = AllAdjusted[1].confidence

\* The call that separates the code from C14: the label ranked second
\* before the adjustment is a moving source and overtakes the first, but
\* top_k = 1 has already dropped it
C14_BoostedLabelDropped ==
    /\ op = "hybrid_classify"
    /\ res.is_moving = Some(TRUE)
    /\ args.top_k = 1
    /\ res.first_guess \notin MovingSources
    /\ res.candidates[1].confidence = 7 * (ConfidenceUnit \div 10)
    /\ AllAdjusted[1].class \in MovingSources
    /\ AllAdjusted[1].confidence > res.candidates[1].confidence

---------------------------------------------------------------------------
(* Claims on doa.py, checked under SpecDoa *)

\* later is earlier delayed by d >= 0 samples, no non-zero sample being lost
DelayedBy(earlier, later, d) ==
    /\ Len(later) = Len(earlier)
    /\ \A j \in 1..Len(earlier) :
           later[j] = (IF j > d THEN earlier[j - d] ELSE 0)
    /\ \A j \in 1..Len(earlier) : j > Len(earlier) - d => earlier[j] = 0

\* sig2 is sig1 shifted by d samples
ShiftedBy(sig1, sig2, d) ==
    IF d >= 0 THEN DelayedBy(sig1, sig2, d) ELSE DelayedBy(sig2, sig1, -d)

NFftOfCall == NextPowerOfTwo(Len(args.sig1) + Len(args.sig2) - 1)

\* The delay a gcc_phat call returns, in samples
TauSamplesOfCall == RTrunc(RMul(res.tau, RInt(args.fs)))

\* C6: when sig2 is sig1 shifted by d samples and |d| is within the search
\* window, gcc_phat returns d/fs within one sample.
C6_RecoversDelay ==
    op = "gcc_phat" =>
        \A d \in -1..1 :
            ( /\ ~Silent(args.sig1)
              /\ ShiftedBy(args.sig1, args.sig2, d)
              /\ Abs(d) <= MaxShift(args.max_tau, args.fs, NFftOfCall \div 2) )
            => Abs(TauSamplesOfCall - d) <= 1

\* The call that separates the code from C6: sig2 one sample late
C6_DelayReturnedNegated ==
    /\ op = "gcc_phat"
    /\ args.sig1 = <<1, 0>>
    /\ args.sig2 = <<0, 1>>
    /\ args.max_tau = None
    /\ TauSamplesOfCall = -1

MaxTauOfCall == Some(RDiv(args.mic_distance, args.speed_of_sound))

\* The delay and the correlation behind an estimate_doa call
DelayOfCall == GccPhat(args.sig1, args.sig2, args.fs, MaxTauOfCall).tau

CorrelationOfCall == GccPhat(args.sig1, args.sig2, args.fs, MaxTauOfCall).cc

\* The indices of the correlation that the call searches
WindowOfCall ==
    LET centre == NFftOfCall \div 2
        max_shift == MaxShift(MaxTauOfCall, args.fs, centre)
    IN  (Max2(centre - max_shift, 0) + 1)..Min2(centre + max_shift + 1, NFftOfCall)

\* |cc| has one largest value in the window, at a lag that has a mirror lag
SinglePeakOfCall ==
    \E i \in WindowOfCall :
        /\ \A j \in WindowOfCall \ {i} :
               CompareAbs(CorrelationOfCall[j], CorrelationOfCall[i]) < 0
        /\ i # 1 \/ NFftOfCall = 1

Negated(angle) == [sine |-> RNeg(angle.sine)]

\* The angle of the same call with the two channels exchanged
SwappedAngleOfCall ==
    EstimateDoa(args.sig2, args.sig1, args.fs, args.mic_distance,
                args.speed_of_sound)

C7_SilentChannels ==
    /\ op = "estimate_doa"
    /\ Silent(args.sig1)
    /\ Silent(args.sig2)
    /\ res.sine.n < 0
    /\ SwappedAngleOfCall = res

\* clamp(speed_of_sound * delay / distance, -1, 1)
ClampedArg(speed_of_sound, delay, distance) ==
    LET x == RDiv(RMul(speed_of_sound, delay), distance)
    IN  IF RLt(x, RInt(-1)) THEN RInt(-1)
        ELSE IF RLt(RInt(1), x) THEN RInt(1) ELSE x

\* The angle lies in [-90, 90] degrees: its sine lies in [-1, 1]
InQuarterTurn(angle) ==
    RLe(RInt(-1), angle.sine) /\ RLe(angle.sine, RInt(1))

\* C8: for mic_distance > 0 the angle of estimate_doa, and of each entry of
\* estimate_doa_array, is degrees(asin(clamp(speed_of_sound * delay / distance, -1, 1))) and
\* lies in [-90, 90] degrees.
C8_AngleIsClampedArcsine ==
    /\ (op = "estimate_doa" /\ args.mic_distance.n > 0) =>
           /\ res = DegreesArcsin(ClampedArg(args.speed_of_sound, DelayOfCall,
                                             args.mic_distance))
           /\ InQuarterTurn(res)
    /\ op = "estimate_doa_array" =>
           \A i \in 1..Len(res) :
               /\ res[i].angle_deg =
                      DegreesArcsin(ClampedArg(args.speed_of_sound,
                                               res[i].tdoa_s, res[i].distance_m))
               /\ InQuarterTurn(res[i].angle_deg)

\* The peak at the edge of the search window: the largest argument of asin
C8_Witness ==
    /\ op = "estimate_doa"
    /\ ~Silent(args.sig1)
    /\ ~Silent(args.sig2)
    /\ Abs(RTrunc(RMul(DelayOfCall, RInt(args.fs)))) =
           MaxShift(MaxTauOfCall, args.fs, NFftOfCall \div 2)
    /\ RLt(Rat(1, 2), RAbs(res.sine))
    /\ RLt(RAbs(res.sine), RInt(1))

\* Zero or near-zero microphone distance: below the 1e-6 m at which
\* estimate_doa_array takes two microphones to coincide
Degenerate(mic_distance) == RLt(mic_distance, Epsilon)

\* C16: an estimate_doa call with degenerate geometry returns an explicit
\* failure that names mic_distance, never an angle or nan.
C16_DegenerateGeometryFails ==
    (op = "estimate_doa" /\ Degenerate(args.mic_distance)) =>
        /\ DOMAIN res = {"error"}
        /\ res.error = "mic_distance"

\* The calls that separate the code from C16: mic_distance 0 returns nan,
\* mic_distance 0.5 micrometres returns 0 degrees
C16_NaNReturned ==
    /\ op = "estimate_doa"
    /\ \/ args.mic_distance = RInt(0) /\ res = DegreesArcsin(NaN)
       \/ args.mic_distance = Rat(1, 2000000) /\ res = DegreesArcsin(RInt(0))

DistanceOfChannel(ch) ==
    Norm(args.mic_positions[ch + 1], args.mic_positions[args.ref_channel + 1])

\* The elements of a set of integers in ascending order
Ascending(S) ==
    CHOOSE s \in [1..Cardinality(S) -> S] :
        \A i \in 1..(Cardinality(S) - 1) : s[i] < s[i + 1]

\* The result is one entry per channel of chs, in ascending order, each the
\* result of that pair alone
EntriesAre(chs) ==
    /\ Len(res) = Cardinality(chs)
    /\ \A i \in 1..Len(res) :
           LET ch == Ascending(chs)[i]
           IN  /\ res[i].pair = <<args.ref_channel, ch>>
               /\ res[i].distance_m = DistanceOfChannel(ch)
               /\ res[i].tdoa_s =
                      GccPhat(args.multi_channel[args.ref_channel + 1],
                              args.multi_channel[ch + 1], args.fs,
                              Some(RDiv(DistanceOfChannel(ch),
                                        args.speed_of_sound))).tau

OtherChannels == (0..(Len(args.multi_channel) - 1)) \ {args.ref_channel}

\* C9 as stated: estimate_doa_array returns one entry for every channel
\* other than the reference whose microphone is farther than 1e-6 m from
\* the reference microphone, and no other entry.
C9_EntriesBeyondEpsilon ==
    op = "estimate_doa_array" =>
        EntriesAre({ch \in OtherChannels : RLt(Epsilon, DistanceOfChannel(ch))})

\* C9: estimate_doa_array returns one entry for every channel other than
\* the reference whose microphone is at least 1e-6 m from the reference
\* microphone, in ascending channel order, tagged with the pair and the
\* distance and computed from that pair alone; the reference channel and
\* the channels nearer than 1e-6 m give no entry.
C9_EntriesFromEpsilon ==
    op = "estimate_doa_array" =>
        EntriesAre({ch \in OtherChannels : RLe(Epsilon, DistanceOfChannel(ch))})

C9_Witness ==
    /\ op = "estimate_doa_array"
    /\ args.ref_channel = 1
    /\ Len(res) = 2
    /\ res[1].pair = <<1, 0>>
    /\ res[2].pair = <<1, 2>>
    /\ res[1].distance_m = Epsilon
    /\ res[2].tdoa_s # RInt(0)

\* A microphone exactly 1e-6 m from the reference has an entry
C9_EntryAtEpsilon ==
    /\ op = "estimate_doa_array"
    /\ \E i \in 1..Len(res) : res[i].distance_m = Epsilon

---------------------------------------------------------------------------
(* Claims on every component, checked under SpecAll *)

\* The arguments a function receives by reference
BorrowedArguments ==
    CASE op \in {"gcc_phat", "estimate_doa"} -> {"sig1", "sig2"}
      [] op = "estimate_doa_array" -> {"multi_channel", "mic_positions"}
      [] op \in {"frequency_track", "full_doppler_analysis"} -> {"audio"}
      [] op = "calculate_velocity" -> {"chunk1", "chunk2", "tail1", "tail2"}
      [] op = "frequency_band_energy" -> {"audio", "bands"}
      [] op = "hybrid_classify" -> {"audio", "bands", "doppler_result"}

---------------------------------------------------------------------------
(* Claims on the band-energy calls and their caller (SpecBands) *)

\* C21: a value returned by frequency_band_energy or hybrid_classify shares
\* no mutable object with the default band table: whatever the caller does
\* to returned values, DEFAULT_BANDS stays as it was at import and a call
\* with the default table returns what it returns with the table of import.
C21_ResultsAreFresh ==
    /\ default_bands = DEFAULT_BANDS
    /\ (op = "hybrid_classify" /\ args.bands = None) =>
           res.candidates = HybridClassify(args.audio, args.sr, Some(DEFAULT_BANDS),
                                           args.doppler_result, args.top_k).candidates

\* A call made after the edit, with the default table, ranks other
\* candidates than the same call made before it.
C21_LaterCallDiffers ==
    /\ op = "hybrid_classify" /\ args.bands = None
    /\ default_bands # DEFAULT_BANDS
    /\ res = HybridClassify(args.audio, args.sr, None, args.doppler_result, args.top_k)
    /\ res.candidates # HybridClassify(args.audio, args.sr, Some(DEFAULT_BANDS),
                                       args.doppler_result, args.top_k).candidates

---------------------------------------------------------------------------
(* Further claims on doa.py (SpecDoa) *)

\* floor(x) for a rational x >= 0
FloorOf(x) == CHOOSE k \in 0..(x.n \div x.d) : RLe(RInt(k), x) /\ RLt(x, RInt(k + 1))

\* The lags a gcc_phat call may return: all of the buffer, or those of
\* the buffer within floor(max_tau * fs) of lag 0.  Index i of the shifted
\* correlation holds lag i - 1 - n_fft \div 2.
LagsOfCall ==
    {i - 1 - NFftOfCall \div 2 : i \in 1..NFftOfCall}

SearchedLagsOfCall ==
    IF args.max_tau = None THEN LagsOfCall
    ELSE {l \in LagsOfCall : Abs(l) <= FloorOf(RMul(args.max_tau[1], RInt(args.fs)))}

CorrelationAtLag(l) == res.cc[l + NFftOfCall \div 2 + 1]

\* C22: gcc_phat returns the lag of the largest |correlation| among the lags
\* of the buffer within m = floor(max_tau * fs) of zero (all lags when no
\* max_tau is given), so |tau * fs| <= m and |tau| <= max_tau.
C22_PeakWithinWindow ==
    op = "gcc_phat" =>
        /\ res.tau = Rat(TauSamplesOfCall, args.fs)
        /\ TauSamplesOfCall \in SearchedLagsOfCall
        /\ \A l \in SearchedLagsOfCall :
               CompareAbs(CorrelationAtLag(l), CorrelationAtLag(TauSamplesOfCall)) <= 0
        /\ args.max_tau # None =>
               /\ Abs(TauSamplesOfCall) <= FloorOf(RMul(args.max_tau[1], RInt(args.fs)))
               /\ RLe(RAbs(res.tau), args.max_tau[1])

\* A call limited to one sample either side of lag 0, in a buffer of four
\* lags, that returns a lag other than 0
C22_Witness ==
    /\ op = "gcc_phat"
    /\ args.max_tau # None
    /\ NFftOfCall = 4
    /\ SearchedLagsOfCall = {-1, 0, 1}
    /\ TauSamplesOfCall # 0

\* A call whose limit reaches beyond the buffer: the window is clamped
C22_ClampedWindow ==
    /\ op = "gcc_phat"
    /\ args.max_tau # None
    /\ FloorOf(RMul(args.max_tau[1], RInt(args.fs))) > NFftOfCall \div 2
    /\ SearchedLagsOfCall = LagsOfCall

---------------------------------------------------------------------------
(* Further claims on doppler.py (SpecDoppler) *)

\* "approaching" goes with a velocity above 0, "receding" with one below
SignAgrees(direction, velocity) ==
    /\ direction = "approaching" => velocity.n > 0
    /\ direction = "receding" => velocity.n < 0

\* speed_of_sound * delta / f_observed, 0 when f_observed <= 0
SignedVelocity(speed_of_sound, delta, f_observed) ==
    IF RLt(RInt(0), f_observed)
    THEN RMul(speed_of_sound, RDiv(delta, f_observed))
    ELSE RInt(0)

\* The part of C23 on calculate_velocity
VelocityOfPairAgrees ==
    op = "calculate_velocity" =>
        /\ res.velocity_m_s = SignedVelocity(args.speed_of_sound,
                                   RSub(F2OfCall, F1OfCall), F2OfCall)
        /\ SignAgrees(res.direction, res.velocity_m_s)

\* The part of C23 on the frames of full_doppler_analysis
VelocityOfFramesAgrees ==
    op = "full_doppler_analysis" =>
        \A i \in 1..Len(res.frequencies) :
            /\ res.velocities[i] =
                   SignedVelocity(args.speed_of_sound,
                       RSub(res.frequencies[i], res.local_source_frequency),
                       res.frequencies[i])
            /\ SignAgrees(res.directions[i], res.velocities[i])

\* C23: in calculate_velocity and in every frame of full_doppler_analysis
\* the velocity is speed_of_sound * delta / f_observed (0 when f_observed
\* is not positive), above 0 when the label is "approaching" and below 0
\* when the label is "receding".
C23_SignAgreesWithLabel == VelocityOfPairAgrees /\ VelocityOfFramesAgrees

\* The call that separates the code from C23: a frame whose search band
\* holds no bin has frequency 0, lies 1000 Hz below the fallback reference
\* and is labelled "receding" with velocity 0
C23_RecedingAtRest ==
    /\ op = "full_doppler_analysis"
    /\ args.source_frequency = None
    /\ res.frequencies[1] = RInt(0)
    /\ res.local_source_frequency = RInt(1000)
    /\ res.directions[1] = "receding"
    /\ res.velocities[1] = RInt(0)

\* The distance, in bins, of a returned frequency f from the peak bin
OffsetInBins(f, peak, sr, n_fft) ==
    RDiv(RSub(f, Rat(peak * sr, n_fft)), Rat(sr, n_fft))

\* f, returned by dominant_frequency for the spectrum spec, is the peak
\* bin's frequency moved by the parabolic offset: 0 at the first and the
\* last bin of the search band and when a - 2b + c = 0, (a - c)/(2(a - 2b + c))
\* otherwise, never more than half a bin, and f lies in the search band.
RefinedWithinHalfBin(spec, sr, n_fft, low_hz, high_hz, f) ==
    LET lo == MaskLo(sr, n_fft, low_hz)
        hi == MaskHi(sr, n_fft, high_hz)
        peak == ArgMaxBin(spec, lo, hi)
        a == Mag(spec, peak - 1)
        b == Mag(spec, peak)
        c == Mag(spec, peak + 1)
        offset == OffsetInBins(f, peak, sr, n_fft)
    IN  lo <= hi =>
            /\ RLe(RAbs(offset), Rat(1, 2))
            /\ (peak = lo \/ peak = hi) => offset = RInt(0)
            /\ (lo < peak /\ peak < hi) =>
                   /\ b >= a /\ b >= c
                   /\ offset = (IF a - 2 * b + c = 0 THEN RInt(0)
                                ELSE RDiv(Rat(a - c, 2), RInt(a - 2 * b + c)))
            /\ RLe(RInt(low_hz), f) /\ RLe(f, RInt(high_hz))

\* C25: the parabolic refinement of dominant_frequency moves the estimate
\* by at most half a bin, by nothing at the edges of the search band and
\* when its denominator is 0, so a frequency found in a non-empty search
\* band lies in [low_hz, high_hz].
C25_RefinementWithinHalfBin ==
    /\ op = "calculate_velocity" =>
           /\ RefinedWithinHalfBin(args.chunk1, args.sample_rate, DefaultNFft,
                                   DefaultLowHz, DefaultHighHz, res.f1_hz)
           /\ RefinedWithinHalfBin(args.chunk2, args.sample_rate, DefaultNFft,
                                   DefaultLowHz, DefaultHighHz, res.f2_hz)
    /\ op = "frequency_track" =>
           \A i \in 1..Len(res.freqs) :
               RefinedWithinHalfBin(args.audio.spectra[i], args.sr,
                                    FrameSamplesOfCall, args.low_hz,
                                    args.high_hz, res.freqs[i])

\* A chunk whose peak bin 11 has an equal right neighbour and an empty left
\* one: the estimate moves up by exactly half a bin
C25_Witness ==
    /\ op = "calculate_velocity"
    /\ MaskLo(args.sample_rate, DefaultNFft, DefaultLowHz) = 10
    /\ args.chunk1[10] = 0 /\ args.chunk1[11] > 0 /\ args.chunk1[12] = args.chunk1[11]
    /\ OffsetInBins(res.f1_hz, 11, args.sample_rate, DefaultNFft) = Rat(1, 2)

\* A peak at the first bin of the search band, with a larger bin below the
\* band's lower edge left out: no refinement
C25_PeakAtBandEdge ==
    /\ op = "frequency_track"
    /\ \E i \in 1..Len(res.freqs) :
           /\ MaskLo(args.sr, FrameSamplesOfCall, args.low_hz) = 2
           /\ args.audio.spectra[i][2] > args.audio.spectra[i][3]
           /\ res.freqs[i] = Rat(2 * args.sr, FrameSamplesOfCall)

\* len(audio[start:end]) for frame i of a buffer of n samples: a slice
\* stops at the end of the buffer
FrameLength(i, n, frame_samples, hop_samples) ==
    Min2(i * hop_samples + frame_samples, n) - Min2(i * hop_samples, n)

\* C26: when the buffer has at least frame_samples samples every frame of
\* frequency_track lies inside it and is whole; a shorter buffer gives one
\* short frame (zero-padded by dominant_frequency).  The time of frame i is
\* (start + end)/2/sr, so times grow by hop_samples/sr per frame.
C26_FramesInsideBuffer ==
    op = "frequency_track" =>
        LET N == args.audio.n
            frame_samples == FrameSamplesOfCall
            hop_samples == HopSamplesOfCall
            n_frames == Len(res.times)
        IN  /\ N >= frame_samples =>
                   \A i \in 0..(n_frames - 1) :
                       /\ i * hop_samples + frame_samples <= N
                       /\ FrameLength(i, N, frame_samples, hop_samples) = frame_samples
            /\ N < frame_samples =>
                   /\ n_frames = 1
                   /\ FrameLength(0, N, frame_samples, hop_samples) = N
            /\ \A i \in 0..(n_frames - 1) :
                   res.times[i + 1] =
                       RDiv(RDiv(RInt(i * hop_samples + i * hop_samples + frame_samples),
                                 RInt(2)), RInt(args.sr))
            /\ \A i \in 1..(n_frames - 1) :
                   RSub(res.times[i + 1], res.times[i]) = Rat(hop_samples, args.sr)

\* Two whole frames, with samples left over after the second
C26_Witness ==
    /\ op = "frequency_track"
    /\ Len(res.times) = 2
    /\ HopSamplesOfCall + FrameSamplesOfCall < args.audio.n
    /\ HopSamplesOfCall < FrameSamplesOfCall

\* A buffer shorter than one frame: a single short frame
C26_ShortBuffer ==
    /\ op = "frequency_track"
    /\ 0 < args.audio.n /\ args.audio.n < FrameSamplesOfCall
    /\ Len(res.times) = 1

\* The estimate in a result of calculate_velocity: all but the echoed
\* source frequency and speed of sound
EstimateOf(result) ==
    [f1_hz |-> result.f1_hz, f2_hz |-> result.f2_hz,
     delta_f_hz |-> result.delta_f_hz,
     velocity_m_s |-> result.velocity_m_s,
     direction |-> result.direction]

\* What the call returns when it is given source_frequency instead
ResultWith(source_frequency) ==
    CalculateVelocity(args.chunk1, args.chunk2, args.sample_rate,
                      source_frequency, args.speed_of_sound)

---------------------------------------------------------------------------
(* Further claims on frequency_filter.py (SpecHybrid) *)

\* The band table a band-energy call works with
TableOfCall == IF args.bands = None THEN default_bands ELSE args.bands[1]

\* Frequency of rfft bin k
BinFrequency(k, sr, n_fft) == Rat(k * sr, n_fft)

\* The rfft bins whose frequency f has low_hz <= f < high_hz
BinsOfBand(band, sr, n_fft) ==
    {k \in 0..(n_fft \div 2) :
        /\ RLe(RInt(band.low_hz), BinFrequency(k, sr, n_fft))
        /\ RLt(BinFrequency(k, sr, n_fft), RInt(band.high_hz))}

\* Total power of a set of bins
PowerOfBins(spectrum, bins) ==
    SeqSum([j \in 1..Cardinality(DOMAIN spectrum) |->
               IF j - 1 \in bins THEN spectrum[j - 1] ELSE 0])

\* Power of each band of a table, by the bins of the band
PowerOfBands(spectrum, table, sr, n_fft) ==
    [b \in 1..Len(table) |-> PowerOfBins(spectrum, BinsOfBand(table[b], sr, n_fft))]

\* C24: in frequency_band_energy a bin contributes its power to a band if
\* and only if low_hz <= f < high_hz, to every band it lies in, and the
\* normalisation total is the sum of the band powers (a bin in no band is
\* not part of it).
C24_BandHoldsItsBins ==
    op = "frequency_band_energy" =>
        Let([power \in Val(PowerOfBands(PowerSpectrum(args.audio, args.n_fft),
                               TableOfCall, args.sr, args.n_fft)) |->
            /\ Len(res) = Len(TableOfCall)
            /\ \A b \in 1..Len(res) :
                   /\ res[b].energy_db = power[b]
                   /\ res[b].energy =
                          (IF SeqSum(power) > 0 THEN Rat(power[b], SeqSum(power))
                           ELSE RInt(0))])

\* A call with overlapping bands and a bin with power in both of them
C24_Witness ==
    /\ op = "frequency_band_energy"
    /\ Len(TableOfCall) = 2
    /\ \E k \in BinsOfBand(TableOfCall[1], args.sr, args.n_fft)
                  \cap BinsOfBand(TableOfCall[2], args.sr, args.n_fft) :
           PowerSpectrum(args.audio, args.n_fft)[k] > 0
    /\ res[2].energy_db > 0
    /\ res[1].energy_db > res[2].energy_db

\* A call with power in a bin that lies on the upper edge of a band
C24_BinOnUpperEdge ==
    /\ op = "frequency_band_energy"
    /\ \E b \in 1..Len(TableOfCall), k \in 0..(args.n_fft \div 2) :
           /\ BinFrequency(k, args.sr, args.n_fft) = RInt(TableOfCall[b].high_hz)
           /\ PowerSpectrum(args.audio, args.n_fft)[k] > 0

\* A call with power in a bin that lies in no band, and power in a band
C24_BinOutsideEveryBand ==
    /\ op = "frequency_band_energy"
    /\ \E k \in 0..(args.n_fft \div 2) :
           /\ \A b \in 1..Len(TableOfCall) :
                  k \notin BinsOfBand(TableOfCall[b], args.sr, args.n_fft)
           /\ PowerSpectrum(args.audio, args.n_fft)[k] > 0
    /\ \E b \in 1..Len(res) : res[b].energy_db > 0

\* No band of the table names a candidate source
NoLabelInTable == \A b \in 1..Len(TableOfCall) : TableOfCall[b].candidate_sources = <<>>

\* C27: for top_k >= 1, with or without Doppler context, hybrid_classify
\* returns between 1 and top_k candidates in non-increasing order of
\* confidence, the single candidate ("unknown", 0.0) when no label is
\* scored, and first_guess is the class of the first candidate.
C27_CandidatesRanked ==
    (op = "hybrid_classify" /\ args.top_k >= 1) =>
        /\ 1 <= Len(res.candidates) /\ Len(res.candidates) <= args.top_k
        /\ \A i \in 1..(Len(res.candidates) - 1) :
               res.candidates[i].confidence >= res.candidates[i + 1].confidence
        /\ res.first_guess = res.candidates[1].class
        /\ NoLabelInTable <=>
               res.candidates = <<[class |-> "unknown", confidence |-> 0]>>

\* A call with a context that indicates motion, whose two candidates have
\* changed places in the second sort
C27_Witness ==
    /\ op = "hybrid_classify"
    /\ res.is_moving = Some(TRUE)
    /\ Len(res.candidates) = 2
    /\ res.candidates[1].confidence > res.candidates[2].confidence
    /\ res.candidates[2].confidence > 0
    /\ CandidatesWithoutContext[1].class = res.candidates[2].class
    /\ res.first_guess = res.candidates[1].class

\* A call with a table that names no source
C27_UnknownOnly ==
    /\ op = "hybrid_classify"
    /\ NoLabelInTable
    /\ res.first_guess = "unknown"

---------------------------------------------------------------------------
(* Claims on the 16-microphone source (SpecMems) *)

\* Frame f arrived before frame g
ArrivedBefore(f, g) ==
    f.packet < g.packet \/ (f.packet = g.packet /\ f.row < g.row)

\* A sequence of frames in arrival order, none twice
InArrivalOrder(frames) ==
    \A i \in 1..Len(frames), j \in 1..Len(frames) :
        i < j => ArrivedBefore(frames[i], frames[j])

\* The rows of a returned chunk: the last k frames delivered, then zeros
ChunkOf(result, k) ==
    /\ k <= Len(reader.delivered)
    /\ \A i \in 1..Len(result.rows) :
           result.rows[i] = (IF i <= k
                             THEN reader.delivered[Len(reader.delivered) - k + i]
                             ELSE ZeroRow)

\* C29: while the source is connected read_chunk(frames) returns exactly
\* `frames` rows of 16 channels, the oldest buffered frames in arrival
\* order, each delivered once at most, then zero rows when fewer than
\* `frames` were buffered; no popleft finds the buffer empty, whatever
\* the receive thread does in between; a source that is not connected or
\* has been stopped raises RuntimeError.
C29_ReadChunkReturnsFrames ==
    /\ reader.result.kind # "IndexError"
    /\ reader.pc = "popleft" =>
           /\ source.is_running
           /\ Len(source.buffer) >= reader.n - Len(reader.out)
    /\ reader.result.kind = "RuntimeError" => ~source.is_running
    /\ reader.result.kind = "array" =>
           /\ source.is_running
           /\ Len(reader.result.rows) = reader.result.frames
           /\ \A i \in 1..Len(reader.result.rows) :
                  reader.result.rows[i].channels = CHANNELS
           /\ ChunkOf(reader.result,
                      IF reader.result.buffered < reader.result.frames
                      THEN reader.result.buffered ELSE reader.result.frames)
    /\ InArrivalOrder(reader.delivered \o source.buffer)
    /\ \A i \in 1..Len(reader.delivered) : reader.delivered[i] # ZeroRow

\* A chunk of one frame and one zero row, returned while a frame that
\* arrived during the call waits in the buffer
C29_Witness ==
    /\ reader.result.kind = "array"
    /\ reader.result.frames = 2
    /\ reader.result.rows[1] # ZeroRow
    /\ reader.result.rows[2] = ZeroRow
    /\ source.buffer # <<>>

\* The ring buffer overflowed between two popleft calls of one read_chunk:
\* the chunk holds two frames that did not arrive one after the other
C29_OverflowDuringRead ==
    /\ reader.result.kind = "array"
    /\ reader.result.frames = 2
    /\ reader.result.rows[2] # ZeroRow
    /\ reader.result.rows[1].packet = 1 /\ reader.result.rows[1].row = 1
    /\ reader.result.rows[2].packet = 2 /\ reader.result.rows[2].row = 2

\* A read_chunk call on a stopped source
C29_StoppedRaises ==
    /\ reader.result.kind = "RuntimeError"
    /\ receiver.received > 0

\* C30: dropped_packets never decreases and is never negative, whatever the
\* order of the sequence numbers received.
C30_DroppedNeverNegative ==
    /\ source.dropped_packets >= 0
    /\ reader.result.kind = "info" => reader.result.dropped_packets >= 0

\* The run that separates the code from C30: sequence number 3, then 0
\* (an earlier datagram arriving late, or the counter starting again):
\* get_info reports -4 dropped packets
C30_NegativeCount ==
    /\ source.last_seq = 0
    /\ receiver.received = 2
    /\ reader.result.kind = "info"
    /\ reader.result.dropped_packets = -4

=============================================================================
